---------------------------- MODULE Spec2Model ----------------------------
(***************************************************************************)
(* Location core of the business recommendation backend.                   *)
(*                                                                         *)
(* Two handlers update a user's location in the primary (MySQL) store:     *)
(*   "app"    app.post("/api/user/location")    (main server file)         *)
(*   "router" router.post("/location")          (userLocationRoute.js)     *)
(* The router variant also mirrors the point into the secondary            *)
(* (PostgreSQL/PostGIS) store through geoLocationService.                  *)
(*                                                                         *)
(* Every awaited call of a handler is one step of the model, and the       *)
(* synchronous code that follows an await belongs to the same step:        *)
(* getConnection, beginTransaction, each statement, the commit and the     *)
(* rollback of an update are steps of their own.                           *)
(*                                                                         *)
(* The read routes (current location, nearby businesses, heatmap,          *)
(* recommendations, friend location) and the like and friend-request       *)
(* routes use the pool without a transaction; each of their queries is a   *)
(* step, and a response is kept in reply until the next step.              *)
(*                                                                         *)
(* Every specification starts from the stores before any request: the      *)
(* rows the other routes read are those the update handlers have written.  *)
(***************************************************************************)
EXTENDS Integers, Sequences, FiniteSets, Bags, TLC

(***************************************************************************)
(* Bounds                                                                  *)
(***************************************************************************)
\* number of handler invocations that can be in flight at the same time
MaxInFlight == 2
\* number of update requests that can reach INSERT INTO locations which the
\* clients send in a run, when the requests come one after the other
MaxInserts == 3
\* the same number in the runs where requests overlap
MaxOverlapping == 2
\* number of survey submissions the clients send in a run that leave a row
\* or take an id
MaxSurveys == 2
\* number of update requests that can reach INSERT INTO locations which the
\* clients send in a run of the read routes
MaxMoves == 2
\* the same number in the runs of the like, recommendations, survey and
\* friends routes
MaxSocialMoves == 1
\* number of friend requests the clients send in a run that can reach
\* INSERT INTO friendships
MaxFriendRequests == 1

(***************************************************************************)
(* JavaScript values of the request body and of the query string           *)
(***************************************************************************)
Undefined == [t |-> "undefined", n |-> 0, s |-> <<>>]
Num(x) == [t |-> "number", n |-> x, s |-> <<>>]
\* a string is the sequence of its characters
Str(chars) == [t |-> "string", n |-> 0, s |-> chars]
\* an array is the sequence of its elements
Arr(items) == [t |-> "array", n |-> 0, s |-> items]

\* typeof v
TypeOf(v) == v.t

\* !v is TRUE exactly for undefined, 0 and the empty string
Falsy(v) ==
  CASE v.t = "undefined" -> TRUE
    [] v.t = "number" -> v.n = 0
    [] v.t = "string" -> v.s = <<>>
    [] v.t = "array" -> FALSE

\* a || b
Or(a, b) == IF Falsy(a) THEN b ELSE a

Users == {1, 2}

\* the (latitude, longitude) pairs a client sends
Bodies ==
  { [latitude |-> Undefined, longitude |-> Num(7)],
    [latitude |-> Num(0), longitude |-> Num(7)],
    [latitude |-> Num(8), longitude |-> Num(0)],
    [latitude |-> Num(8), longitude |-> Num(7)],
    [latitude |-> Num(9), longitude |-> Num(7)],
    [latitude |-> Num(95), longitude |-> Num(7)],
    [latitude |-> Num(8), longitude |-> Num(190)],
    [latitude |-> Str(<<"a", "b", "c">>), longitude |-> Num(7)] }

\* the pairs sent by the clients whose requests overlap in time
OverlappingBodies ==
  { [latitude |-> Num(0), longitude |-> Num(7)],
    [latitude |-> Num(8), longitude |-> Num(7)],
    [latitude |-> Num(9), longitude |-> Num(7)] }

\* the pairs passed to upsertUserLocation when it is called on its own: two
\* valid points and one out of range
UpsertBodies ==
  { [latitude |-> Num(8), longitude |-> Num(7)],
    [latitude |-> Num(9), longitude |-> Num(7)],
    [latitude |-> Num(8), longitude |-> Num(190)] }

\* Authorization header of a request: none, a bad token, or a token of user id
NoToken == [t |-> "none", id |-> 0]
BadToken == [t |-> "invalid", id |-> 0]
Token(u) == [t |-> "valid", id |-> u]
Tokens == {NoToken, BadToken} \cup {Token(u) : u \in Users}

\* req.body.user_id of the router variant
UserIds == {Undefined} \cup {Num(u) : u \in Users}

(***************************************************************************)
(* State                                                                   *)
(***************************************************************************)
VARIABLES
  locations,        \* MySQL table locations (committed rows)
  user_locations,   \* MySQL table user_locations (committed rows)
  nextLocationId,   \* AUTO_INCREMENT of locations
  nextUserLocationId, \* AUTO_INCREMENT of user_locations
  pg_user_locations,  \* PostgreSQL table user_locations, a sequence of rows
  user_business_likes, \* MySQL table user_business_likes
  friendships,      \* MySQL table friendships
  nextFriendshipId, \* AUTO_INCREMENT of friendships
  users,            \* MySQL table users
  nextUserId,       \* AUTO_INCREMENT of users
  user_preferences, \* MySQL table user_preferences (committed rows)
  nextPreferenceId, \* AUTO_INCREMENT of user_preferences
  initial_survey_responses, \* MySQL table initial_survey_responses, a bag
  h,                \* the handler invocations in flight, one per slot
  reply,            \* the response of the last read request, kept until
                    \* the next update request arrives
  lastOk,           \* history: the last update answered 201, per user
  okCount,          \* history: number of updates answered 201
  lastUpsert        \* history: the last upsertUserLocation that wrote, per user

vars == <<locations, user_locations, nextLocationId, nextUserLocationId,
          pg_user_locations, user_business_likes, friendships,
          nextFriendshipId, users, nextUserId, user_preferences,
          nextPreferenceId, initial_survey_responses, h, reply, lastOk,
          okCount, lastUpsert>>

Slots == 1..MaxInFlight

(***************************************************************************)
(* Rows and values of the stores                                           *)
(***************************************************************************)
\* a numeric column takes a query parameter that is a number; in strict SQL
\* mode (the server default) the statement fails on text that is no number
IsSqlNumber(v) == v.t = "number"

\* the businesses table, joined to locations through location_id
\* (rating is DECIMAL with one fractional digit, kept here in tenths)
businesses ==
  { [business_id |-> 1, location_id |-> 1, cluster_id |-> 3, rating |-> 48],
    [business_id |-> 2, location_id |-> 2, cluster_id |-> 3, rating |-> 32],
    [business_id |-> 3, location_id |-> 3, cluster_id |-> 3, rating |-> 49],
    [business_id |-> 4, location_id |-> 4, cluster_id |-> 2, rating |-> 40] }

\* the users table at the start: the two users that hold tokens
InitialUsers ==
  { [user_id |-> 1, username |-> <<"user1">>, email |-> <<"user1@x">>],
    [user_id |-> 2, username |-> <<"user2">>, email |-> <<"user2@x">>] }

\* the user_preferences table at the start: user 1 has submitted the
\* survey, user 2 has not
InitialPreferences ==
  { [preference_id |-> 1, user_id |-> 1, cluster_id |-> 3] }

\* the locations rows of the businesses, present before any user moves
BusinessLocations ==
  { [location_id |-> 1, latitude |-> 8, longitude |-> 7],
    [location_id |-> 2, latitude |-> 9, longitude |-> 7],
    [location_id |-> 3, latitude |-> 10, longitude |-> 7],
    [location_id |-> 4, latitude |-> 8, longitude |-> 8] }

\* first AUTO_INCREMENT value of locations that is free after the businesses
FirstLocationId == Cardinality(BusinessLocations) + 1

\* rows of user_locations that belong to user u
RowsOf(u) == {r \in user_locations : r.user_id = u}

\* variant of CurrentRows: the is_current condition is dropped
CurrentRowsAny(u) == RowsOf(u)

\* ... WHERE ul.user_id = ? AND ul.is_current = TRUE
CurrentRows(u) == {r \in RowsOf(u) : r.is_current}

\* JOIN locations l ON ul.location_id = l.location_id
LocationOf(r) == CHOOSE l \in locations : l.location_id = r.location_id

(***************************************************************************)
(* Handler invocations                                                     *)
(***************************************************************************)
\* no read request has been answered since the last update request
NoReply == [op |-> "none", user |-> 0, status |-> 0, latitude |-> 0,
            longitude |-> 0, radius |-> 0, limit |-> 0, rows |-> <<>>,
            count |-> 0, queried |-> FALSE, located |-> FALSE, target |-> 0]

NoResponse == [status |-> 0, locationId |-> 0, userLocationId |-> 0,
               postgres |-> "none"]

Idle ==
  [pc |-> "idle", kind |-> "none", session |-> 0, userId |-> Undefined,
   latitude |-> Undefined, longitude |-> Undefined,
   locationId |-> 0, userLocationId |-> 0,
   txLocations |-> {}, txCleared |-> {}, txUserLocations |-> {},
   existingUser |-> FALSE, pgResult |-> "null", res |-> NoResponse,
   acquired |-> 0, released |-> 0, mirrored |-> FALSE, pgError |-> FALSE,
   committed |-> FALSE, threw |-> "none",
   radius |-> Undefined, limit |-> Undefined, status |-> Undefined,
   target |-> 0, username |-> Undefined, email |-> Undefined,
   responses |-> Undefined, clusterId |-> Undefined, saved |-> 0,
   txPreferences |-> {}, txInserted |-> 0]

\* the invocation holds an open MySQL transaction: a handler between its
\* beginTransaction and the end of its commit or rollback. A direct call of
\* upsertUserLocation has none, nor has a handler whose beginTransaction
\* rejected.
InTransaction(me) ==
  /\ me.kind \in {"app", "router"}
  /\ \/ me.pc \in {"insertLocation", "clearCurrent", "insertUserLocation",
                   "upsert", "pgWrite", "commit"}
     \/ me.pc = "rollback" /\ me.threw # "beginTransaction"

\* res.status(code).json(...) for a response without ids
Answer(code) == [NoResponse EXCEPT !.status = code]

\* !latitude || !longitude
MissingCoordinates(latitude, longitude) == Falsy(latitude) \/ Falsy(longitude)

\* InnoDB row locks: the UPDATE of invocation p waits while another open
\* transaction holds a lock on a user_locations row of user u, either a row
\* its own UPDATE touched or a row it inserted and has not committed
Blocked(p, u) ==
  \E q \in Slots \ {p} :
    /\ InTransaction(h[q])
    /\ \/ h[q].txCleared \cap {r.user_location_id : r \in RowsOf(u)} # {}
       \/ \E r \in h[q].txUserLocations : r.user_id = u

\* the request passes the validation of its handler
Valid(me) ==
  /\ me.kind = "router" => ~Falsy(me.userId)
  /\ ~MissingCoordinates(me.latitude, me.longitude)

(***************************************************************************)
(* geoLocationService                                                      *)
(***************************************************************************)
\* validateCoordinates: TRUE when it returns, FALSE when it throws
validateCoordinates(latitude, longitude) ==
  /\ ~(TypeOf(latitude) # "number" \/ TypeOf(longitude) # "number")
  /\ ~(latitude.n < -90 \/ latitude.n > 90)
  /\ ~(longitude.n < -180 \/ longitude.n > 180)

\* positions of the rows of the secondary store with user_id = u
PgRowsOf(u) ==
  {i \in 1..Len(pg_user_locations) : pg_user_locations[i].user_id = u}

\* getUserLocation: result.rows.length > 0 ? result.rows[0] : null
getUserLocation(u) == PgRowsOf(u) # {}

\* insertUserLocation: INSERT INTO user_locations (user_id, location, updated_at)
insertUserLocation(u, latitude, longitude) ==
  Append(pg_user_locations,
         [user_id |-> u, latitude |-> latitude.n, longitude |-> longitude.n])

\* variant of updateUserLocation: the UPDATE has no WHERE user_id = $1
updateUserLocationAll(u, latitude, longitude) ==
  [i \in 1..Len(pg_user_locations) |->
     [user_id |-> pg_user_locations[i].user_id,
      latitude |-> latitude.n, longitude |-> longitude.n]]

\* updateUserLocation: UPDATE user_locations SET location = ... WHERE user_id = $1
updateUserLocation(u, latitude, longitude) ==
  [i \in 1..Len(pg_user_locations) |->
     IF pg_user_locations[i].user_id = u
       THEN [user_id |-> u, latitude |-> latitude.n, longitude |-> longitude.n]
       ELSE pg_user_locations[i]]

\* variant of PostgresField: the fallback is dropped
PostgresFieldAsIs(pgResult) == "row"

\* pgResult || { status: "failed" }
PostgresField(pgResult) == IF pgResult = "null" THEN "failed" ELSE pgResult

(***************************************************************************)
(* Statements of the MySQL transaction                                     *)
(***************************************************************************)
\* INSERT INTO locations (latitude, longitude, ...) VALUES (?, ?, ...)
NewLocation(id, latitude, longitude) ==
  [location_id |-> id, latitude |-> latitude.n, longitude |-> longitude.n]

\* variant of ClearedRows: the UPDATE touches no row
ClearedRowsNone(u) == {}

\* UPDATE user_locations SET is_current = FALSE WHERE user_id = ?
\* the rows the statement touches (and locks)
ClearedRows(u) == {r.user_location_id : r \in RowsOf(u)}

\* INSERT INTO user_locations (user_id, location_id, is_current)
\* VALUES (?, ?, TRUE)
NewUserLocation(id, u, locationId) ==
  [user_location_id |-> id, user_id |-> u, location_id |-> locationId,
   is_current |-> TRUE]

\* variant of CommittedLocations: the user's record is overwritten
CommittedLocationsOverwritten(p) == BusinessLocations \cup h[p].txLocations

\* connection.commit(): the tables once the transaction of p is applied
CommittedLocations(p) == locations \cup h[p].txLocations

\* variant of CommittedUserLocations: the UPDATE has no WHERE user_id = ?
CommittedUserLocationsAllCleared(p) ==
  {[r EXCEPT !.is_current = FALSE] : r \in user_locations}
    \cup h[p].txUserLocations

\* the same for user_locations: the rows the UPDATE touched are cleared and
\* the inserted row is added
CommittedUserLocations(p) ==
  {IF r.user_location_id \in h[p].txCleared
     THEN [r EXCEPT !.is_current = FALSE] ELSE r : r \in user_locations}
    \cup h[p].txUserLocations

\* connection.rollback(): the tables once the transaction of p is discarded
RolledBackLocations(p) == locations

RolledBackUserLocations(p) == user_locations

(***************************************************************************)
(* updateLocation: app.post("/api/user/location") and                      *)
(* router.post("/location")                                                *)
(***************************************************************************)
\* the tables no statement of updateLocation touches
AccountsUnchanged ==
  UNCHANGED <<users, nextUserId, user_preferences, nextPreferenceId,
              initial_survey_responses>>

SocialUnchanged ==
  /\ UNCHANGED <<user_business_likes, friendships, nextFriendshipId>>
  /\ AccountsUnchanged

StoreUnchanged ==
  /\ UNCHANGED <<locations, user_locations, nextLocationId,
                 nextUserLocationId, pg_user_locations>>
  /\ SocialUnchanged

HistoryUnchanged == UNCHANGED <<lastOk, okCount, lastUpsert>>

\* the request as its handler gets it: pool.getConnection() is called
Accepted(kind, userId, body) ==
  [Idle EXCEPT !.pc = "getConnection", !.kind = kind, !.userId = userId,
               !.latitude = body.latitude, !.longitude = body.longitude]

\* the validation failure path: release, answer 400, and release again in
\* the finally block
Rejected(me) ==
  [me EXCEPT !.pc = "done", !.res = Answer(400), !.released = 2]

\* beginTransaction resolves (begins) or rejects
Begun(me, begins) ==
  IF begins THEN [me EXCEPT !.pc = "insertLocation"]
            ELSE [me EXCEPT !.pc = "rollback", !.threw = "beginTransaction"]

\* a request reaches the main server: authenticateToken answers it, or the
\* handler starts and awaits pool.getConnection()
RequestApp(p, sent) ==
  /\ h[p].pc = "idle"
  /\ \E token \in Tokens, body \in sent :
       LET me == [Accepted("app", Num(token.id), body)
                    EXCEPT !.session = token.id]
           \* the middleware answers; the handler does not run
           unauthenticated(code) ==
             [Idle EXCEPT !.kind = "app", !.pc = "done",
                          !.res = Answer(code)]
           next == IF token.t = "none" THEN unauthenticated(401)
                   ELSE IF token.t = "invalid" THEN unauthenticated(403)
                   ELSE me
       IN h' = [h EXCEPT ![p] = next]
  /\ reply' = NoReply
  /\ StoreUnchanged /\ HistoryUnchanged

\* a request reaches the router: the handler starts and awaits
\* mysqlPool.getConnection(); the user id is req.body.user_id
RequestRouter(p, sent) ==
  /\ h[p].pc = "idle"
  /\ \E userId \in UserIds, body \in sent :
       h' = [h EXCEPT ![p] = Accepted("router", userId, body)]
  /\ reply' = NoReply
  /\ StoreUnchanged /\ HistoryUnchanged

\* getConnection resolves: the handler validates the request and either
\* answers 400 or calls beginTransaction and awaits it
GetConnection(p) ==
  /\ h[p].pc = "getConnection"
  /\ LET me == [h[p] EXCEPT !.acquired = 1]
     IN h' = [h EXCEPT ![p] =
                IF Valid(me) THEN [me EXCEPT !.pc = "beginTransaction"]
                ELSE Rejected(me)]
  /\ StoreUnchanged /\ HistoryUnchanged /\ UNCHANGED reply

\* beginTransaction resolves or rejects
BeginTransaction(p) ==
  /\ h[p].pc = "beginTransaction"
  /\ \E begins \in BOOLEAN :
       /\ h' = [h EXCEPT ![p] = Begun(@, begins)]
  /\ StoreUnchanged /\ HistoryUnchanged /\ UNCHANGED reply

\* 1. insert the new location record
InsertLocation(p) ==
  /\ h[p].pc = "insertLocation"
  /\ IsSqlNumber(h[p].latitude) /\ IsSqlNumber(h[p].longitude)
  /\ h' = [h EXCEPT ![p].pc = "clearCurrent",
                    ![p].locationId = nextLocationId,
                    ![p].txLocations =
                      {NewLocation(nextLocationId, h[p].latitude,
                                   h[p].longitude)}]
  /\ nextLocationId' = nextLocationId + 1
  /\ UNCHANGED <<locations, user_locations, nextUserLocationId,
                 pg_user_locations, reply>>
  /\ SocialUnchanged /\ HistoryUnchanged

\* 2. set all existing locations of the user to is_current = FALSE
ClearCurrent(p) ==
  /\ h[p].pc = "clearCurrent"
  /\ ~Blocked(p, h[p].userId.n)
  /\ h' = [h EXCEPT ![p].pc = "insertUserLocation",
                    ![p].txCleared = ClearedRows(h[p].userId.n)]
  /\ StoreUnchanged /\ HistoryUnchanged /\ UNCHANGED reply

\* 3. insert the new current location
InsertUserLocation(p) ==
  /\ h[p].pc = "insertUserLocation"
  /\ h' = [h EXCEPT ![p].pc = IF h[p].kind = "router" THEN "upsert"
                                                      ELSE "commit",
                    ![p].userLocationId = nextUserLocationId,
                    ![p].txUserLocations =
                      {NewUserLocation(nextUserLocationId, h[p].userId.n,
                                       h[p].locationId)}]
  /\ nextUserLocationId' = nextUserLocationId + 1
  /\ UNCHANGED <<locations, user_locations, nextLocationId,
                 pg_user_locations, reply>>
  /\ SocialUnchanged /\ HistoryUnchanged

\* a statement of the transaction, or the commit, rejects: control passes to
\* the catch block
Throw(p) ==
  /\ h[p].pc \in {"insertLocation", "clearCurrent", "insertUserLocation",
                  "commit"}
  /\ h' = [h EXCEPT ![p].pc = "rollback", ![p].threw = h[p].pc]
  /\ StoreUnchanged /\ HistoryUnchanged /\ UNCHANGED reply

\* where upsertUserLocation returns or throws to: the router handler goes on
\* to its commit, a direct caller has its result
Returned(me) == IF me.kind = "router" THEN "commit" ELSE "done"

\* 4. geoLocationService.upsertUserLocation up to its first query:
\* validateCoordinates, then getUserLocation. A throw is caught by the
\* handler (catch (pgError)), which goes on to the commit.
Upsert(p) ==
  /\ h[p].pc = "upsert"
  /\ \E resolves \in BOOLEAN :
       h' = [h EXCEPT ![p] =
               IF validateCoordinates(h[p].latitude, h[p].longitude) /\ resolves
                 THEN [@ EXCEPT !.pc = "pgWrite",
                                !.existingUser = getUserLocation(h[p].userId.n)]
                 ELSE [@ EXCEPT !.pc = Returned(h[p]), !.pgError = TRUE]]
  /\ StoreUnchanged /\ HistoryUnchanged /\ UNCHANGED reply

\* geoLocationService.upsertUserLocation(userId, latitude, longitude) called
\* on its own: the call is taken and runs up to its first await
UpsertCall(p) ==
  /\ h[p].pc = "idle"
  /\ \E u \in Users, body \in UpsertBodies :
       h' = [h EXCEPT ![p] =
               [Idle EXCEPT !.kind = "service", !.pc = "upsert",
                            !.userId = Num(u),
                            !.latitude = body.latitude,
                            !.longitude = body.longitude]]
  /\ reply' = NoReply
  /\ StoreUnchanged /\ HistoryUnchanged

\* user_id is unique in the secondary store: an INSERT for a user that has a
\* row is refused
PgUnique(u) == PgRowsOf(u) = {}

\* the second query of upsertUserLocation: updateUserLocation when the user
\* was found, insertUserLocation otherwise; result.rows[0] is the row written
PgWrite(p) ==
  /\ h[p].pc = "pgWrite"
  /\ LET u == h[p].userId.n
         written == IF h[p].existingUser THEN PgRowsOf(u) # {} ELSE PgUnique(u)
     IN \E resolves \in BOOLEAN :
          IF resolves /\ written
            THEN /\ pg_user_locations' =
                      IF h[p].existingUser
                        THEN updateUserLocation(u, h[p].latitude, h[p].longitude)
                        ELSE insertUserLocation(u, h[p].latitude, h[p].longitude)
                 /\ h' = [h EXCEPT ![p].pc = Returned(h[p]),
                                   ![p].pgResult = "row",
                                   ![p].mirrored = TRUE]
                 /\ lastUpsert' = [lastUpsert EXCEPT ![u] =
                                     [set |-> TRUE,
                                      latitude |-> h[p].latitude.n,
                                      longitude |-> h[p].longitude.n]]
            ELSE \* the query rejects or the INSERT is refused (both throw), or
                 \* the UPDATE matches no row and result.rows[0] is undefined
                 /\ UNCHANGED <<pg_user_locations, lastUpsert>>
                 /\ h' = [h EXCEPT ![p].pc = Returned(h[p]),
                                   ![p].pgError = ~resolves \/ ~h[p].existingUser]
  /\ reply' = NoReply
  /\ UNCHANGED <<locations, user_locations, nextLocationId,
                 nextUserLocationId, lastOk, okCount>>
  /\ SocialUnchanged

\* what an invocation keeps once it has answered: the transaction is over
Done(me, res) ==
  [me EXCEPT !.pc = "done", !.res = res, !.released = 1,
             !.txLocations = {}, !.txCleared = {}, !.txUserLocations = {}]

\* res.status(201).json(...) of either handler
Created(me) ==
  [status |-> 201, locationId |-> me.locationId,
   userLocationId |-> me.userLocationId,
   postgres |-> IF me.kind = "router" THEN PostgresField(me.pgResult)
                                      ELSE "none"]

\* connection.commit() resolves; the handler answers 201 and releases
Commit(p) ==
  /\ h[p].pc = "commit"
  /\ locations' = CommittedLocations(p)
  /\ user_locations' = CommittedUserLocations(p)
  /\ h' = [h EXCEPT ![p] = [Done(@, Created(@)) EXCEPT !.committed = TRUE]]
  /\ lastOk' = [lastOk EXCEPT ![h[p].userId.n] =
                  [set |-> TRUE, row |-> h[p].userLocationId,
                   latitude |-> h[p].latitude.n,
                   longitude |-> h[p].longitude.n]]
  /\ okCount' = okCount + 1
  /\ reply' = NoReply
  /\ UNCHANGED <<nextLocationId, nextUserLocationId, pg_user_locations,
                 lastUpsert>>
  /\ SocialUnchanged

\* the catch block: connection.rollback(), answer 500, release
Rollback(p) ==
  /\ h[p].pc = "rollback"
  /\ locations' = RolledBackLocations(p)
  /\ user_locations' = RolledBackUserLocations(p)
  /\ h' = [h EXCEPT ![p] = Done(@, Answer(500))]
  /\ reply' = NoReply
  /\ UNCHANGED <<nextLocationId, nextUserLocationId, pg_user_locations>>
  /\ SocialUnchanged /\ HistoryUnchanged

\* a rejection that no catch block of the handler takes leaves the async
\* handler as a rejected promise: the handler sends nothing. What the caller
\* gets then is up to the framework around the handler, which either passes
\* the rejection to its error handling (answered: a 500) or ignores the
\* promise the handler returned (the request is never answered).
Escaped(me, answered) ==
  [me EXCEPT !.pc = "done",
             !.res = IF answered THEN Answer(500) ELSE NoResponse]

\* pool.getConnection() rejects. The call stands before the try block, so
\* neither the catch block nor the finally block runs: nothing was
\* acquired, nothing is released.
GetConnectionRejects(p) ==
  /\ h[p].pc = "getConnection"
  /\ \E answered \in BOOLEAN :
       h' = [h EXCEPT ![p] =
               Escaped([@ EXCEPT !.threw = "getConnection"], answered)]
  /\ StoreUnchanged /\ HistoryUnchanged /\ UNCHANGED reply

\* connection.rollback() rejects inside the catch block: the lines after it,
\* console.error and res.status(500), are skipped, the finally block
\* releases the connection, and the rejection leaves the handler. Nothing of
\* the transaction has been committed.
RollbackRejects(p) ==
  /\ h[p].pc = "rollback"
  /\ \E answered \in BOOLEAN :
       h' = [h EXCEPT ![p] =
               Escaped([Done(@, NoResponse) EXCEPT !.threw = "rollback"],
                       answered)]
  /\ locations' = RolledBackLocations(p)
  /\ user_locations' = RolledBackUserLocations(p)
  /\ reply' = NoReply
  /\ UNCHANGED <<nextLocationId, nextUserLocationId, pg_user_locations>>
  /\ SocialUnchanged /\ HistoryUnchanged

\* the invocation is over; its slot serves the next request
Finish(p) ==
  /\ h[p].pc = "done"
  /\ h' = [h EXCEPT ![p] = Idle]
  /\ StoreUnchanged /\ HistoryUnchanged /\ UNCHANGED reply

(***************************************************************************)
(* getCurrentLocation: app.get("/api/user/location")                       *)
(***************************************************************************)
\* res.json(locations[0]): the query has no ORDER BY, any matching row may
\* come first
GetCurrentLocation ==
  /\ \E token \in Tokens :
       LET u == token.id
           say(code) == [NoReply EXCEPT !.op = "getCurrentLocation",
                                        !.user = u, !.status = code]
       IN IF token.t = "none" THEN reply' = say(401)
          ELSE IF token.t = "invalid" THEN reply' = say(403)
          ELSE IF CurrentRows(u) = {} THEN reply' = say(404)
          ELSE \E r \in CurrentRows(u) :
                 reply' = [say(200) EXCEPT
                             !.latitude = LocationOf(r).latitude,
                             !.longitude = LocationOf(r).longitude]
  /\ StoreUnchanged /\ HistoryUnchanged /\ UNCHANGED h

(***************************************************************************)
(* findNearbyBusinesses: app.get("/api/businesses/nearby")                 *)
(***************************************************************************)
DefaultRadius == 10
DefaultLimit == 20
DefaultHeatmapRadius == 10
DefaultRecommendLimit == 10

\* values of req.query.radius and req.query.limit
Radii == {Undefined, Str(<<"0">>), Str(<<"1", "1", "1">>),
          Str(<<"1", "1", "2">>), Str(<<"1", "5", "7">>), Str(<<"x">>)}
Limits == {Undefined, Str(<<"0">>), Str(<<"1">>), Str(<<"2">>), Str(<<"x">>),
           Str(<<" ", "1">>), Str(<<"\f", "U+00A0", "1">>), Str(<<"-", "1">>),
           Str(<<"0", "x", "2">>)}

\* values of req.query.limit of the recommendations route
RecommendLimits == {Undefined, Str(<<"2">>), Str(<<"x">>)}

IsDigit(c) == c \in {"0", "1", "2", "3", "4", "5", "6", "7", "8", "9"}

DigitValue(c) ==
  CASE c = "0" -> 0 [] c = "1" -> 1 [] c = "2" -> 2 [] c = "3" -> 3
    [] c = "4" -> 4 [] c = "5" -> 5 [] c = "6" -> 6 [] c = "7" -> 7
    [] c = "8" -> 8 [] c = "9" -> 9
    [] c \in {"a", "A"} -> 10 [] c \in {"b", "B"} -> 11
    [] c \in {"c", "C"} -> 12 [] c \in {"d", "D"} -> 13
    [] c \in {"e", "E"} -> 14 [] c \in {"f", "F"} -> 15

\* c is a digit of the radix
IsDigitOf(radix, c) ==
  IsDigit(c) \/ (radix = 16 /\ c \in {"a", "b", "c", "d", "e", "f",
                                       "A", "B", "C", "D", "E", "F"})

\* the number of leading decimal digits of a string
RECURSIVE LeadingDigits(_)
LeadingDigits(chars) ==
  IF chars = <<>> \/ ~IsDigit(Head(chars)) THEN 0
  ELSE 1 + LeadingDigits(Tail(chars))

\* the value of a string of decimal digits
RECURSIVE DecimalValue(_)
DecimalValue(chars) ==
  IF chars = <<>> THEN 0
  ELSE 10 * DecimalValue(SubSeq(chars, 1, Len(chars) - 1))
         + DigitValue(chars[Len(chars)])

\* the number of leading digits of the radix
RECURSIVE LeadingDigitsOf(_, _)
LeadingDigitsOf(radix, chars) ==
  IF chars = <<>> \/ ~IsDigitOf(radix, Head(chars)) THEN 0
  ELSE 1 + LeadingDigitsOf(radix, Tail(chars))

\* the value of a string of digits of the radix
RECURSIVE RadixValue(_, _)
RadixValue(radix, chars) ==
  IF chars = <<>> THEN 0
  ELSE radix * RadixValue(radix, SubSeq(chars, 1, Len(chars) - 1))
         + DigitValue(chars[Len(chars)])

\* white space that parseInt skips: the WhiteSpace and LineTerminator
\* characters of ECMAScript (StrWhiteSpaceChar). A character that has no
\* escape in a string of this notation is written by its code point
IsWhiteSpace(c) ==
  c \in {" ", "\t", "\n", "\r", "\f", "U+000B", "U+00A0", "U+FEFF",
         "U+2028", "U+2029", "U+1680", "U+2000", "U+2001", "U+2002",
         "U+2003", "U+2004", "U+2005", "U+2006", "U+2007", "U+2008",
         "U+2009", "U+200A", "U+202F", "U+205F", "U+3000"}

\* the string without its leading white space
RECURSIVE TrimStart(_)
TrimStart(chars) ==
  IF chars # <<>> /\ IsWhiteSpace(Head(chars)) THEN TrimStart(Tail(chars))
  ELSE chars

\* parseInt(v) without a radix: leading white space is skipped, a sign is
\* taken, a 0x or 0X prefix makes the radix 16, and the leading digits of
\* the radix are the value; NaN when there are none
NaN == [nan |-> TRUE, n |-> 0]
parseInt(v) ==
  IF v.t = "number" THEN [nan |-> FALSE, n |-> v.n]
  ELSE
    LET trimmed == TrimStart(v.s)
        signed == trimmed # <<>> /\ Head(trimmed) \in {"+", "-"}
        sign == IF signed /\ Head(trimmed) = "-" THEN 0 - 1 ELSE 1
        unsigned == IF signed THEN Tail(trimmed) ELSE trimmed
        hex == /\ Len(unsigned) >= 2
               /\ unsigned[1] = "0" /\ unsigned[2] \in {"x", "X"}
        radix == IF hex THEN 16 ELSE 10
        digits == IF hex THEN SubSeq(unsigned, 3, Len(unsigned)) ELSE unsigned
        n == LeadingDigitsOf(radix, digits)
    IN IF n = 0 THEN NaN
       ELSE [nan |-> FALSE,
             n |-> sign * RadixValue(radix, SubSeq(digits, 1, n))]

\* the number MySQL compares with when the parameter of "distance < ?" is
\* text: its leading digits, 0 when there are none
SqlCompareNumber(v) ==
  IF v.t = "number" THEN v.n
  ELSE DecimalValue(SubSeq(v.s, 1, LeadingDigits(v.s)))

\* acos(x) is NULL when rounding carries x above 1; IEEE double arithmetic
\* does so for coincident points at latitude 8.
\* TRUE when cos(radians(lat1)) * cos(radians(lat2)) * cos(radians(lon2) -
\* radians(lon1)) + sin(radians(lat1)) * sin(radians(lat2)) lies in [-1, 1]
AcosDefined(lat1, lon1, lat2, lon2) ==
  ~(lat1 = 8 /\ lat2 = 8 /\ lon1 = lon2)

\* 6371 * acos(...) of the query, in whole metres (rounded down), for the
\* user positions and business positions of this model, evaluated in IEEE
\* double arithmetic (the entries where acos is undefined are not used)
DistanceMetres(lat1, lon1, lat2, lon2) ==
  LET from == <<lat1, lon1>>
      to == <<lat2, lon2>>
      row(a, b, c, d, e, f) ==
        CASE to = <<8, 7>> -> a [] to = <<9, 7>> -> b
          [] to = <<10, 7>> -> c [] to = <<8, 8>> -> d
          [] to = <<95, 7>> -> e [] to = <<8, 190>> -> f
  IN CASE from = <<2, 3>> ->
            row(800785, 895327, 993304, 866940, 10339774, 18658962)
       [] from = <<8, 7>> ->
            row(0, 111194, 222389, 110112, 9673958, 18205164)
       [] from = <<9, 7>> ->
            row(111194, 0, 111194, 156391, 9562763, 18095779)
       [] from = <<95, 7>> ->
            row(9673958, 9562763, 9451568, 9673874, 0, 8562782)
       [] from = <<8, 190>> ->
            row(18205164, 18095779, 17986204, 18222212, 8562782, 0)

\* HAVING distance < ?   (kilometres on both sides; a NULL distance fails)
Within(metres, radius) == metres < radius * 1000

\* the rows of businesses JOIN locations that pass HAVING distance < ?
NearbyRows(userLat, userLng, radius) ==
  { [business_id |-> b.business_id,
     distance |-> DistanceMetres(userLat, userLng, l.latitude, l.longitude)] :
    <<b, l>> \in
      { bl \in businesses \X locations :
          /\ bl[1].location_id = bl[2].location_id
          /\ AcosDefined(userLat, userLng, bl[2].latitude, bl[2].longitude)
          /\ Within(DistanceMetres(userLat, userLng, bl[2].latitude,
                                   bl[2].longitude), radius) } }

\* ORDER BY distance: rows i < j of the result are in this order
Ordered(a, b) == a.distance <= b.distance

\* the orders ORDER BY distance may return the rows in (ties in any order)
OrderedBy(rows) ==
  { q \in [1..Cardinality(rows) -> rows] :
      /\ \A i, j \in 1..Cardinality(rows) : i # j => q[i] # q[j]
      /\ \A i, j \in 1..Cardinality(rows) : i < j => Ordered(q[i], q[j]) }

\* LIMIT n
Limit(q, n) == SubSeq(q, 1, IF n < Len(q) THEN n ELSE Len(q))

\* variant of UserLocationNotFound: the length test is left out
UserLocationNotFoundNever(userLocations) == FALSE

\* userLocations.length === 0
UserLocationNotFound(userLocations) == Cardinality(userLocations) = 0

\* LIMIT ? given NaN or a negative number: the statement is rejected
LimitRejected(limit) == limit.nan \/ limit.n < 0

\* app.get("/api/businesses/nearby") up to the result of its first query:
\* authenticateToken, then the user's current location; the handler answers
\* 404 or goes on to the businesses query with the position it has read
FindNearbyBusinesses(p) ==
  /\ h[p].pc = "idle"
  /\ \E token \in Tokens, qradius \in Radii, qlimit \in Limits :
       LET u == token.id
           say(code) == [NoReply EXCEPT !.op = "findNearbyBusinesses",
                                        !.user = u, !.status = code]
           answer(code) == reply' = say(code) /\ UNCHANGED h
       IN IF token.t = "none" THEN answer(401)
          ELSE IF token.t = "invalid" THEN answer(403)
          ELSE IF UserLocationNotFound(CurrentRows(u)) THEN answer(404)
          \* userLocations[0].latitude of an empty result throws: catch, 500
          ELSE IF CurrentRows(u) = {} THEN answer(500)
          ELSE \E r \in CurrentRows(u) :
                 /\ h' = [h EXCEPT ![p] =
                            [Idle EXCEPT
                               !.pc = "nearbyQuery",
                               !.kind = "findNearbyBusinesses",
                               !.session = u,
                               !.latitude = Num(LocationOf(r).latitude),
                               !.longitude = Num(LocationOf(r).longitude),
                               !.radius = Or(qradius, Num(DefaultRadius)),
                               !.limit = Or(qlimit, Num(DefaultLimit))]]
                 /\ reply' = NoReply
  /\ StoreUnchanged /\ HistoryUnchanged

\* the businesses query of the handler and its answer: 500 when the query
\* is rejected for its limit
NearbyQuery(p) ==
  /\ h[p].pc = "nearbyQuery"
  /\ LET userLat == h[p].latitude.n
         userLng == h[p].longitude.n
         radius == SqlCompareNumber(h[p].radius)
         limit == parseInt(h[p].limit)
         say(code) == [NoReply EXCEPT !.op = "findNearbyBusinesses",
                                      !.user = h[p].session,
                                      !.status = code]
     IN IF LimitRejected(limit) THEN reply' = say(500)
        ELSE \E q \in OrderedBy(NearbyRows(userLat, userLng, radius)) :
               reply' = [say(200) EXCEPT
                           !.latitude = userLat, !.longitude = userLng,
                           !.radius = radius,
                           !.limit = limit.n,
                           !.rows = Limit(q, limit.n)]
  /\ h' = [h EXCEPT ![p] = Idle]
  /\ StoreUnchanged /\ HistoryUnchanged

(***************************************************************************)
(* buildHeatmap: app.get("/api/user/heatmap")                              *)
(***************************************************************************)
\* variant of NoLocationData: the absence is reported as an error
NoLocationDataAsError(say) == [say EXCEPT !.status = 404]

\* res.json({locations: [], count: 0, message: "No location data available"})
NoLocationData(say) ==
  [say EXCEPT !.status = 200, !.rows = <<>>, !.count = 0]

\* the rows of user_locations JOIN locations WHERE ul.is_current = TRUE that
\* pass HAVING distance < ?
HeatmapRows(userLat, userLng, radius) ==
  { [location_id |-> l.location_id, latitude |-> l.latitude,
     longitude |-> l.longitude,
     distance |-> DistanceMetres(userLat, userLng, l.latitude, l.longitude)] :
    <<ul, l>> \in
      { ull \in user_locations \X locations :
          /\ ull[1].location_id = ull[2].location_id
          /\ ull[1].is_current
          /\ AcosDefined(userLat, userLng, ull[2].latitude, ull[2].longitude)
          /\ Within(DistanceMetres(userLat, userLng, ull[2].latitude,
                                   ull[2].longitude), radius) } }

\* locationResults.map((loc) => ({location_id, latitude, longitude, ...,
\* is_current: true}))
LocationModel(loc) ==
  [location_id |-> loc.location_id, latitude |-> loc.latitude,
   longitude |-> loc.longitude, is_current |-> TRUE]

\* app.get("/api/user/heatmap") up to the result of its first query:
\* authenticateToken, then the user's current location; the handler answers
\* with the empty result or goes on to the radius query with the position
\* it has read
BuildHeatmap(p) ==
  /\ h[p].pc = "idle"
  /\ \E token \in Tokens, qradius \in Radii :
       LET u == token.id
           say(code) == [NoReply EXCEPT !.op = "buildHeatmap",
                                        !.user = u, !.status = code]
           answer(with) == reply' = with /\ UNCHANGED h
       IN IF token.t = "none" THEN answer(say(401))
          ELSE IF token.t = "invalid" THEN answer(say(403))
          ELSE IF Cardinality(CurrentRows(u)) = 0
            THEN answer(NoLocationData(say(0)))
          ELSE \E r \in CurrentRows(u) :
                 /\ h' = [h EXCEPT ![p] =
                            [Idle EXCEPT
                               !.pc = "heatmapQuery",
                               !.kind = "buildHeatmap",
                               !.session = u,
                               !.latitude = Num(LocationOf(r).latitude),
                               !.longitude = Num(LocationOf(r).longitude),
                               !.radius =
                                 Or(qradius, Num(DefaultHeatmapRadius))]]
                 /\ reply' = NoReply
  /\ StoreUnchanged /\ HistoryUnchanged

\* the radius query of the handler and its answer
HeatmapQuery(p) ==
  /\ h[p].pc = "heatmapQuery"
  /\ LET userLat == h[p].latitude.n
         userLng == h[p].longitude.n
         radius == SqlCompareNumber(h[p].radius)
     IN \E q \in OrderedBy(HeatmapRows(userLat, userLng, radius)) :
          reply' = [NoReply EXCEPT
                      !.op = "buildHeatmap", !.user = h[p].session,
                      !.status = 200,
                      !.latitude = userLat, !.longitude = userLng,
                      !.radius = radius,
                      !.queried = TRUE,
                      !.rows = [i \in 1..Len(q) |-> LocationModel(q[i])],
                      !.count = Len(q)]
  /\ h' = [h EXCEPT ![p] = Idle]
  /\ StoreUnchanged /\ HistoryUnchanged

(***************************************************************************)
(* Likes: app.post / app.delete ("/api/business/:id/like")                 *)
(***************************************************************************)
\* values of req.params.id of the like routes; 9 is no business
BusinessIds == {1, 9}

\* the tables a like request leaves alone
LikeFrame ==
  /\ UNCHANGED <<locations, user_locations, nextLocationId,
                 nextUserLocationId, pg_user_locations, friendships,
                 nextFriendshipId>>
  /\ AccountsUnchanged
  /\ HistoryUnchanged

\* a row of user_business_likes without its like_id; the table is kept as
\* the number of rows there are for each (user_id, business_id)
Like(userId, businessId) == [user_id |-> userId, business_id |-> businessId]

\* SELECT like_id FROM user_business_likes WHERE user_id = ? AND
\* business_id = ?: the number of rows
ExistingLikes(userId, businessId) ==
  CopiesIn(Like(userId, businessId), user_business_likes)

\* app.post("/api/business/:id/like") up to the result of its first query:
\* authenticateToken, then whether the business exists
LikeBusiness(p) ==
  /\ h[p].pc = "idle"
  /\ \E token \in Tokens, businessId \in BusinessIds :
       LET userId == token.id
           say(code) == [NoReply EXCEPT !.op = "likeBusiness",
                                        !.user = userId, !.target = businessId,
                                        !.status = code]
           answer(code) == reply' = say(code) /\ UNCHANGED h
       IN IF token.t = "none" THEN answer(401)
          ELSE IF token.t = "invalid" THEN answer(403)
          ELSE IF {b \in businesses : b.business_id = businessId} = {}
            THEN answer(404)
          ELSE /\ h' = [h EXCEPT ![p] =
                          [Idle EXCEPT !.pc = "likeCheck",
                                       !.kind = "likeBusiness",
                                       !.session = userId,
                                       !.target = businessId]]
               /\ reply' = NoReply
  /\ UNCHANGED user_business_likes
  /\ LikeFrame

\* the second query of the handler: 409 when the user has liked the
\* business, otherwise the handler goes on to the INSERT
LikeCheck(p) ==
  /\ h[p].pc = "likeCheck"
  /\ IF ExistingLikes(h[p].session, h[p].target) > 0
       THEN /\ reply' = [NoReply EXCEPT !.op = "likeBusiness",
                                        !.user = h[p].session,
                                        !.target = h[p].target,
                                        !.status = 409]
            /\ h' = [h EXCEPT ![p] = Idle]
       ELSE /\ reply' = reply
            /\ h' = [h EXCEPT ![p].pc = "likeInsert"]
  /\ UNCHANGED user_business_likes
  /\ LikeFrame

\* INSERT INTO user_business_likes (user_id, business_id) and the answer 201
LikeInsert(p) ==
  /\ h[p].pc = "likeInsert"
  /\ user_business_likes' =
       user_business_likes (+) SetToBag({Like(h[p].session, h[p].target)})
  /\ reply' = [NoReply EXCEPT !.op = "likeBusiness",
                              !.user = h[p].session,
                              !.target = h[p].target,
                              !.status = 201]
  /\ h' = [h EXCEPT ![p] = Idle]
  /\ LikeFrame

\* app.delete("/api/business/:id/like"): DELETE FROM user_business_likes
\* WHERE user_id = ? AND business_id = ? removes every row of the pair
UnlikeBusiness ==
  /\ \E token \in Tokens, businessId \in BusinessIds :
       LET userId == token.id
           say(code) == [NoReply EXCEPT !.op = "unlikeBusiness",
                                        !.user = userId, !.target = businessId,
                                        !.status = code]
           affectedRows == ExistingLikes(userId, businessId)
       IN IF token.t = "none"
            THEN reply' = say(401) /\ UNCHANGED user_business_likes
          ELSE IF token.t = "invalid"
            THEN reply' = say(403) /\ UNCHANGED user_business_likes
          ELSE /\ user_business_likes' =
                    [k \in DOMAIN user_business_likes
                            \ {Like(userId, businessId)} |->
                       user_business_likes[k]]
               /\ reply' = say(IF affectedRows = 0 THEN 404 ELSE 200)
  /\ UNCHANGED h
  /\ LikeFrame

(***************************************************************************)
(* recommend: app.get("/api/recommendations")                              *)
(***************************************************************************)
\* a NULL distance (acos undefined): ORDER BY distance puts NULL before every
\* number, as this value is
NullDistance == 0 - 1

\* SELECT business_id FROM user_business_likes WHERE user_id = ?
Liked(userId) ==
  {k.business_id :
     k \in {x \in BagToSet(user_business_likes) : x.user_id = userId}}

\* the distance column of the recommendations query, 6371 * acos(
\* cos(radians(?)) * cos(radians(l.latitude)) * cos(radians(l.longitude) -
\* radians(?)) + sin(radians(?)) * sin(radians(l.latitude))), for the values
\* p1, p2, p3 its three placeholders are bound to. TRUE when the argument
\* of acos lies in [-1, 1]: for p1 in 2..3 and p2 in 1..2 it does for p3 in
\* 2..3 and lies above 1 for p3 = 8 and p3 = 9, at every business of this
\* model (IEEE double arithmetic)
PlaceholderAcosDefined(p1, p2, p3, lat2, lon2) == p3 \in {2, 3}

\* the value of that column in whole metres (rounded down), evaluated in
\* IEEE double arithmetic (there are no entries where acos is undefined)
PlaceholderDistanceMetres(p1, p2, p3, lat2, lon2) ==
  LET to == <<lat2, lon2>>
      row(a, b, c, d) ==
        CASE to = <<8, 7>> -> a [] to = <<9, 7>> -> b
          [] to = <<10, 7>> -> c [] to = <<8, 8>> -> d
  IN CASE <<p1, p2, p3>> = <<2, 1, 2>> -> row(941505, 1022892, 1109425, 1022641)
       [] <<p1, p2, p3>> = <<2, 1, 3>> -> row(829938, 907759, 991921, 920886)
       [] <<p1, p2, p3>> = <<2, 2, 2>> -> row(866940, 954843, 1047153, 941505)
       [] <<p1, p2, p3>> = <<2, 2, 3>> -> row(744352, 830401, 921819, 829938)
       [] <<p1, p2, p3>> = <<3, 1, 2>> -> row(973410, 1052276, 1136515, 1052049)
       [] <<p1, p2, p3>> = <<3, 1, 3>> -> row(865934, 940716, 1022100, 953412)
       [] <<p1, p2, p3>> = <<3, 2, 2>> -> row(901526, 986290, 1075845, 973410)
       [] <<p1, p2, p3>> = <<3, 2, 3>> -> row(784330, 866345, 954254, 865934)

\* the rows of businesses JOIN locations WHERE b.cluster_id = ? AND
\* b.business_id NOT IN (... WHERE user_id = ?) for the values the
\* placeholders are bound to: p1, p2, p3 in the distance column, which is
\* there when the user has a location, then cluster and user
RecommendRows(located, p1, p2, p3, cluster, user) ==
  { [business_id |-> b.business_id, rating |-> b.rating,
     distance |->
       IF ~located THEN 0
       ELSE IF PlaceholderAcosDefined(p1, p2, p3, l.latitude, l.longitude)
         THEN PlaceholderDistanceMetres(p1, p2, p3, l.latitude, l.longitude)
       ELSE NullDistance] :
    <<b, l>> \in
      { bl \in businesses \X locations :
          /\ bl[1].location_id = bl[2].location_id
          /\ bl[1].cluster_id = cluster
          /\ bl[1].business_id \notin Liked(user) } }

\* ORDER BY b.rating DESC: rows i < j of the result are in this order
ByRating(a, b) == a.rating >= b.rating

\* the orders ORDER BY b.rating DESC may return the rows in
OrderedByRating(rows) ==
  { q \in [1..Cardinality(rows) -> rows] :
      /\ \A i, j \in 1..Cardinality(rows) : i # j => q[i] # q[j]
      /\ \A i, j \in 1..Cardinality(rows) : i < j => ByRating(q[i], q[j]) }

\* app.get("/api/recommendations") up to the result of its first query:
\* authenticateToken, then the user's cluster. The parameter array of the
\* last query is bound to the
\* placeholders in the order of the SQL text. Without a location that is
\* [clusterId, userId, limit] for cluster_id = ?, user_id = ?, LIMIT ?. With
\* a location the distance column puts three placeholders in front of these,
\* and the array [clusterId, userId, userLat, userLng, userLat, limit] gives
\* clusterId, userId, userLat to the distance column, userLng to
\* cluster_id = ? and userLat to user_id = ?.
Recommend(p) ==
  /\ h[p].pc = "idle"
  /\ \E token \in Tokens, qlimit \in RecommendLimits :
       LET userId == token.id
           userPreferences == {r \in user_preferences : r.user_id = userId}
           say(code) == [NoReply EXCEPT !.op = "recommend",
                                        !.user = userId, !.status = code]
           answer(code) == reply' = say(code) /\ UNCHANGED h
       IN IF token.t = "none" THEN answer(401)
          ELSE IF token.t = "invalid" THEN answer(403)
          ELSE IF Cardinality(userPreferences) = 0 THEN answer(404)
          ELSE \E pref \in userPreferences :
                 /\ h' = [h EXCEPT ![p] =
                            [Idle EXCEPT
                               !.pc = "recommendLocate",
                               !.kind = "recommend",
                               !.session = userId,
                               !.target = pref.cluster_id,
                               !.limit =
                                 Or(qlimit, Num(DefaultRecommendLimit))]]
                 /\ reply' = NoReply
  /\ StoreUnchanged /\ HistoryUnchanged

\* the second query of the handler: the user's current location, if any
RecommendLocate(p) ==
  /\ h[p].pc = "recommendLocate"
  /\ IF Cardinality(CurrentRows(h[p].session)) > 0
       THEN \E r \in CurrentRows(h[p].session) :
              h' = [h EXCEPT ![p].pc = "recommendQuery",
                             ![p].latitude = Num(LocationOf(r).latitude),
                             ![p].longitude = Num(LocationOf(r).longitude)]
       ELSE h' = [h EXCEPT ![p].pc = "recommendQuery"]
  /\ StoreUnchanged /\ HistoryUnchanged /\ UNCHANGED reply

\* the recommendations query and the answer: 500 when the query is rejected
\* for its limit
RecommendQuery(p) ==
  /\ h[p].pc = "recommendQuery"
  /\ LET userId == h[p].session
         clusterId == h[p].target
         limit == parseInt(h[p].limit)
         located == h[p].latitude # Undefined
         userLat == h[p].latitude.n
         userLng == h[p].longitude.n
         say(code) == [NoReply EXCEPT !.op = "recommend",
                                      !.user = userId, !.status = code]
     IN IF LimitRejected(limit) THEN reply' = say(500)
        ELSE IF located
          THEN \E q \in OrderedBy(RecommendRows(TRUE, clusterId, userId,
                                                userLat, userLng, userLat)) :
                 reply' = [say(200) EXCEPT
                             !.located = TRUE,
                             !.latitude = userLat,
                             !.longitude = userLng,
                             !.limit = limit.n,
                             !.rows = Limit(q, limit.n)]
        ELSE \E q \in OrderedByRating(RecommendRows(FALSE, 0, 0, 0,
                                                    clusterId, userId)) :
               reply' = [say(200) EXCEPT
                           !.limit = limit.n,
                           !.rows = Limit(q, limit.n)]
  /\ h' = [h EXCEPT ![p] = Idle]
  /\ StoreUnchanged /\ HistoryUnchanged

(***************************************************************************)
(* Friends: app.post("/api/friends/request"),                              *)
(* app.put("/api/friends/request/:friendshipId") and                       *)
(* app.get("/api/friends/:id/location")                                    *)
(***************************************************************************)

\* req.body.friendUsername: absent, the name of a user at the start, the
\* name a third user registers with, or the name of no user
FriendUsernames ==
  {Undefined, Str(<<"user1">>), Str(<<"user2">>), Str(<<"user3">>),
   Str(<<"nobody">>)}

\* req.params.id of the friend location route
FriendIds == 1..3

\* req.body.status of the answer to a friend request
FriendStatuses ==
  {Undefined, Str(<<"accepted">>), Str(<<"rejected">>), Str(<<"pending">>)}

\* req.params.friendshipId
FriendshipIds == 1..3

\* the tables a friends route leaves alone
FriendsFrame ==
  /\ UNCHANGED <<locations, user_locations, nextLocationId,
                 nextUserLocationId, pg_user_locations, user_business_likes>>
  /\ AccountsUnchanged
  /\ HistoryUnchanged

\* SELECT * FROM friendships WHERE (user_id_1 = ? AND user_id_2 = ?)
\*                               OR (user_id_1 = ? AND user_id_2 = ?)
FriendshipsBetween(userId, friendId) ==
  { f \in friendships :
      \/ f.user_id_1 = userId /\ f.user_id_2 = friendId
      \/ f.user_id_1 = friendId /\ f.user_id_2 = userId }

\* app.post("/api/friends/request") up to the result of its first query:
\* authenticateToken, the test of friendUsername, then the user of that name
SendFriendRequest(p) ==
  /\ h[p].pc = "idle"
  /\ \E token \in Tokens, friendUsername \in FriendUsernames :
       LET userId == token.id
           \* SELECT user_id FROM users WHERE username = ?
           friends == {u \in users : u.username = friendUsername.s}
           say(code, friendId) ==
             [NoReply EXCEPT !.op = "sendFriendRequest", !.user = userId,
                             !.target = friendId, !.status = code]
           refuse(code, friendId) ==
             reply' = say(code, friendId) /\ UNCHANGED h
       IN IF token.t = "none" THEN refuse(401, 0)
          ELSE IF token.t = "invalid" THEN refuse(403, 0)
          ELSE IF Falsy(friendUsername) THEN refuse(400, 0)
          ELSE IF Cardinality(friends) = 0 THEN refuse(404, 0)
          ELSE \E friend \in friends :
                 LET friendId == friend.user_id
                 IN IF userId = friendId THEN refuse(400, friendId)
                    ELSE /\ h' = [h EXCEPT ![p] =
                                    [Idle EXCEPT
                                       !.pc = "friendshipCheck",
                                       !.kind = "sendFriendRequest",
                                       !.session = userId,
                                       !.target = friendId]]
                         /\ reply' = NoReply
  /\ UNCHANGED <<friendships, nextFriendshipId>>
  /\ FriendsFrame

\* the second query of the handler: 409 when a friendship between the two
\* exists, otherwise the handler goes on to the INSERT
FriendshipCheck(p) ==
  /\ h[p].pc = "friendshipCheck"
  /\ IF Cardinality(FriendshipsBetween(h[p].session, h[p].target)) > 0
       THEN /\ reply' = [NoReply EXCEPT !.op = "sendFriendRequest",
                                        !.user = h[p].session,
                                        !.target = h[p].target,
                                        !.status = 409]
            /\ h' = [h EXCEPT ![p] = Idle]
       ELSE /\ reply' = reply
            /\ h' = [h EXCEPT ![p].pc = "friendshipInsert"]
  /\ UNCHANGED <<friendships, nextFriendshipId>>
  /\ FriendsFrame

\* INSERT INTO friendships (user_id_1, user_id_2, status) VALUES (?, ?,
\* 'pending') and the answer 201
FriendshipInsert(p) ==
  /\ h[p].pc = "friendshipInsert"
  /\ friendships' = friendships \cup
       {[friendship_id |-> nextFriendshipId,
         user_id_1 |-> h[p].session, user_id_2 |-> h[p].target,
         status |-> "pending"]}
  /\ nextFriendshipId' = nextFriendshipId + 1
  /\ reply' = [NoReply EXCEPT !.op = "sendFriendRequest",
                              !.user = h[p].session,
                              !.target = h[p].target,
                              !.status = 201]
  /\ h' = [h EXCEPT ![p] = Idle]
  /\ FriendsFrame

\* the status text of a request body
StatusText(status) ==
  CASE status = Str(<<"accepted">>) -> "accepted"
    [] status = Str(<<"rejected">>) -> "rejected"
    [] OTHER -> "other"

\* app.put("/api/friends/request/:friendshipId") up to the result of its
\* first query: authenticateToken, the test of status, then the pending
\* friendship addressed to the user
RespondFriendRequest(p) ==
  /\ h[p].pc = "idle"
  /\ \E token \in Tokens, friendshipId \in FriendshipIds,
        status \in FriendStatuses :
       LET userId == token.id
           say(code) == [NoReply EXCEPT !.op = "respondFriendRequest",
                                        !.user = userId,
                                        !.target = friendshipId,
                                        !.status = code]
           refuse(code) == reply' = say(code) /\ UNCHANGED h
           \* WHERE friendship_id = ? AND user_id_2 = ? AND status = 'pending'
           pending ==
             { f \in friendships :
                 /\ f.friendship_id = friendshipId
                 /\ f.user_id_2 = userId
                 /\ f.status = "pending" }
       IN IF token.t = "none" THEN refuse(401)
          ELSE IF token.t = "invalid" THEN refuse(403)
          ELSE IF Falsy(status)
                    \/ StatusText(status) \notin {"accepted", "rejected"}
            THEN refuse(400)
          ELSE IF Cardinality(pending) = 0 THEN refuse(404)
          ELSE /\ h' = [h EXCEPT ![p] =
                          [Idle EXCEPT !.pc = "respondUpdate",
                                       !.kind = "respondFriendRequest",
                                       !.session = userId,
                                       !.target = friendshipId,
                                       !.status = status]]
               /\ reply' = NoReply
  /\ UNCHANGED <<friendships, nextFriendshipId>>
  /\ FriendsFrame

\* UPDATE friendships SET status = ? WHERE friendship_id = ? and the answer
RespondUpdate(p) ==
  /\ h[p].pc = "respondUpdate"
  /\ friendships' =
       { IF f.friendship_id = h[p].target
           THEN [f EXCEPT !.status = StatusText(h[p].status)]
           ELSE f : f \in friendships }
  /\ reply' = [NoReply EXCEPT !.op = "respondFriendRequest",
                              !.user = h[p].session,
                              !.target = h[p].target,
                              !.status = 200]
  /\ h' = [h EXCEPT ![p] = Idle]
  /\ UNCHANGED nextFriendshipId
  /\ FriendsFrame

\* variant of AcceptedFriendships: the status is not looked at
AcceptedFriendshipsAnyStatus(userId, friendId) ==
  FriendshipsBetween(userId, friendId)

\* SELECT * FROM friendships WHERE ((user_id_1 = ? AND user_id_2 = ?) OR
\* (user_id_1 = ? AND user_id_2 = ?)) AND status = 'accepted'
AcceptedFriendships(userId, friendId) ==
  {f \in FriendshipsBetween(userId, friendId) : f.status = "accepted"}

\* app.get("/api/friends/:id/location") up to the result of its first
\* query: authenticateToken, then the accepted friendships of the two; the
\* handler answers 403 or goes on to the location query
GetFriendLocation(p) ==
  /\ h[p].pc = "idle"
  /\ \E token \in Tokens, friendId \in FriendIds :
       LET userId == token.id
           say(code) == [NoReply EXCEPT !.op = "getFriendLocation",
                                        !.user = userId, !.target = friendId,
                                        !.status = code]
           refuse(code) == reply' = say(code) /\ UNCHANGED h
       IN IF token.t = "none" THEN refuse(401)
          ELSE IF token.t = "invalid" THEN refuse(403)
          ELSE IF Cardinality(AcceptedFriendships(userId, friendId)) = 0
            THEN refuse(403)
          ELSE /\ h' = [h EXCEPT ![p] =
                          [Idle EXCEPT !.pc = "friendLocate",
                                       !.kind = "getFriendLocation",
                                       !.session = userId,
                                       !.target = friendId]]
               /\ reply' = NoReply
  /\ StoreUnchanged /\ HistoryUnchanged

\* the location query of the handler and its answer
FriendLocate(p) ==
  /\ h[p].pc = "friendLocate"
  /\ LET say(code) == [NoReply EXCEPT !.op = "getFriendLocation",
                                      !.user = h[p].session,
                                      !.target = h[p].target,
                                      !.status = code]
     IN IF Cardinality(CurrentRows(h[p].target)) = 0
          THEN reply' = say(404)
        ELSE \E r \in CurrentRows(h[p].target) :
               reply' = [say(200) EXCEPT
                           !.located = TRUE,
                           !.latitude = LocationOf(r).latitude,
                           !.longitude = LocationOf(r).longitude]
  /\ h' = [h EXCEPT ![p] = Idle]
  /\ StoreUnchanged /\ HistoryUnchanged

(***************************************************************************)
(* Registration: app.post("/api/register")                                 *)
(***************************************************************************)
\* req.body of a registration: a field missing, a name or an email that is
\* in use, and the registration of a third user
RegisterBodies ==
  { [username |-> Undefined, email |-> Str(<<"user3@x">>),
     password |-> Str(<<"pw">>)],
    [username |-> Str(<<"user3">>), email |-> Str(<<"user3@x">>),
     password |-> Undefined],
    [username |-> Str(<<"user1">>), email |-> Str(<<"user3@x">>),
     password |-> Str(<<"pw">>)],
    [username |-> Str(<<"user3">>), email |-> Str(<<"user1@x">>),
     password |-> Str(<<"pw">>)],
    [username |-> Str(<<"user3">>), email |-> Str(<<"user3@x">>),
     password |-> Str(<<"pw">>)] }

\* SELECT user_id FROM users WHERE username = ? OR email = ?
ExistingUsers(username, email) ==
  {u \in users : u.username = username.s \/ u.email = email.s}

\* the tables the registration leaves alone
RegisterFrame ==
  /\ UNCHANGED <<locations, user_locations, nextLocationId,
                 nextUserLocationId, pg_user_locations, user_business_likes,
                 friendships, nextFriendshipId, user_preferences,
                 nextPreferenceId, initial_survey_responses>>
  /\ HistoryUnchanged

\* the handler up to the result of its first query: the test of the three
\* fields, then the users of that name or email
Register(p) ==
  /\ h[p].pc = "idle"
  /\ \E body \in RegisterBodies :
       LET say(code) == [NoReply EXCEPT !.op = "register", !.status = code]
           refuse(code) == reply' = say(code) /\ UNCHANGED h
       IN IF Falsy(body.username) \/ Falsy(body.email)
               \/ Falsy(body.password)
            THEN refuse(400)
          ELSE IF Cardinality(ExistingUsers(body.username, body.email)) > 0
            THEN refuse(409)
          ELSE /\ h' = [h EXCEPT ![p] =
                          [Idle EXCEPT !.pc = "registerHash",
                                       !.kind = "register",
                                       !.username = body.username,
                                       !.email = body.email]]
               /\ reply' = NoReply
  /\ UNCHANGED <<users, nextUserId>>
  /\ RegisterFrame

\* bcrypt.hash resolves and the INSERT is sent
RegisterHash(p) ==
  /\ h[p].pc = "registerHash"
  /\ h' = [h EXCEPT ![p].pc = "registerInsert"]
  /\ UNCHANGED <<users, nextUserId, reply>>
  /\ RegisterFrame

\* INSERT INTO users (username, email, password_hash) and the answer 201
\* with the new id. The table definition is not part of the sources: where
\* a row of the same name or email has been inserted meanwhile, the INSERT
\* adds a second one, or a unique key refuses it and the handler answers 500
RegisterInsert(p) ==
  /\ h[p].pc = "registerInsert"
  /\ \E refused \in BOOLEAN :
       /\ refused => Cardinality(ExistingUsers(h[p].username, h[p].email)) > 0
       /\ users' =
            IF refused THEN users
            ELSE users \cup {[user_id |-> nextUserId,
                              username |-> h[p].username.s,
                              email |-> h[p].email.s]}
       /\ reply' = [NoReply EXCEPT !.op = "register",
                                   !.target = IF refused THEN 0
                                                         ELSE nextUserId,
                                   !.status = IF refused THEN 500 ELSE 201]
  /\ nextUserId' = nextUserId + 1
  /\ h' = [h EXCEPT ![p] = Idle]
  /\ RegisterFrame

(***************************************************************************)
(* Survey: app.post("/api/survey/submit")                                  *)
(***************************************************************************)
\* req.body of a submission; a response is written by its question id
SurveyBodies ==
  { [responses |-> Undefined, clusterId |-> Num(3)],
    [responses |-> Str(<<"q1">>), clusterId |-> Num(3)],
    [responses |-> Arr(<<>>), clusterId |-> Undefined],
    [responses |-> Arr(<<>>), clusterId |-> Num(2)],
    [responses |-> Arr(<<>>), clusterId |-> Num(3)],
    [responses |-> Arr(<<"q1">>), clusterId |-> Num(3)] }

\* Array.isArray(v)
IsArray(v) == v.t = "array"

\* the tables the survey leaves alone
SurveyFrame ==
  /\ UNCHANGED <<locations, user_locations, nextLocationId,
                 nextUserLocationId, pg_user_locations, user_business_likes,
                 friendships, nextFriendshipId, users, nextUserId>>
  /\ HistoryUnchanged

\* a submission is in flight in slot q
Submitting(q) == h[q].kind = "submitSurvey"

\* the answer of a submission
SurveyAnswer(userId, code) ==
  [NoReply EXCEPT !.op = "submitSurvey", !.user = userId, !.status = code]

\* authenticateToken, the test of the body, and the call of
\* pool.getConnection()
SubmitSurvey(p) ==
  /\ h[p].pc = "idle"
  /\ \E token \in Tokens, body \in SurveyBodies :
       LET userId == token.id
           refuse(code) ==
             reply' = SurveyAnswer(userId, code) /\ UNCHANGED h
       IN IF token.t = "none" THEN refuse(401)
          ELSE IF token.t = "invalid" THEN refuse(403)
          ELSE IF Falsy(body.responses) \/ ~IsArray(body.responses)
                    \/ Falsy(body.clusterId)
            THEN refuse(400)
          ELSE /\ h' = [h EXCEPT ![p] =
                          [Idle EXCEPT !.pc = "surveyGetConnection",
                                       !.kind = "submitSurvey",
                                       !.session = userId,
                                       !.responses = body.responses,
                                       !.clusterId = body.clusterId]]
               /\ reply' = NoReply
  /\ UNCHANGED <<user_preferences, nextPreferenceId,
                 initial_survey_responses>>
  /\ SurveyFrame

\* pool.getConnection() resolves and beginTransaction is called
SurveyGetConnection(p) ==
  /\ h[p].pc = "surveyGetConnection"
  /\ h' = [h EXCEPT ![p].pc = "surveyBegin", ![p].acquired = 1]
  /\ UNCHANGED <<user_preferences, nextPreferenceId,
                 initial_survey_responses, reply>>
  /\ SurveyFrame

\* the position after the responses saved so far
AfterResponses(me, saved) ==
  IF saved < Len(me.responses.s) THEN "surveyResponse"
  ELSE "surveyPreferences"

\* beginTransaction resolves: the loop sends the INSERT of the first
\* response, or, without responses, the preferences are selected
SurveyBegin(p) ==
  /\ h[p].pc = "surveyBegin"
  /\ h' = [h EXCEPT ![p].pc = AfterResponses(h[p], 0)]
  /\ UNCHANGED <<user_preferences, nextPreferenceId,
                 initial_survey_responses, reply>>
  /\ SurveyFrame

\* INSERT INTO initial_survey_responses of one response, in the transaction
SurveyResponse(p) ==
  /\ h[p].pc = "surveyResponse"
  /\ h' = [h EXCEPT ![p].saved = @ + 1,
                    ![p].pc = AfterResponses(h[p], h[p].saved + 1)]
  /\ UNCHANGED <<user_preferences, nextPreferenceId,
                 initial_survey_responses, reply>>
  /\ SurveyFrame

\* SELECT preference_id FROM user_preferences WHERE user_id = ?, and the
\* UPDATE or the INSERT is sent
SurveyPreferences(p) ==
  /\ h[p].pc = "surveyPreferences"
  /\ LET existingPrefs ==
           {r \in user_preferences : r.user_id = h[p].session}
     IN h' = [h EXCEPT ![p].pc = IF Cardinality(existingPrefs) > 0
                                   THEN "surveyUpdate"
                                   ELSE "surveyInsert"]
  /\ UNCHANGED <<user_preferences, nextPreferenceId,
                 initial_survey_responses, reply>>
  /\ SurveyFrame

\* InnoDB row locks: the UPDATE of invocation p waits while another open
\* transaction holds a row of user_preferences of the user, one it updated
\* or one it inserted and has not committed
SurveyBlocked(p) ==
  \E q \in Slots \ {p} :
    /\ Submitting(q)
    /\ \/ \E r \in user_preferences :
            r.user_id = h[p].session
              /\ r.preference_id \in h[q].txPreferences
       \/ h[q].txInserted # 0 /\ h[q].session = h[p].session

\* UPDATE user_preferences SET cluster_id = ? WHERE user_id = ?, in the
\* transaction
SurveyUpdate(p) ==
  /\ h[p].pc = "surveyUpdate"
  /\ ~SurveyBlocked(p)
  /\ h' = [h EXCEPT ![p].pc = "surveyCommit",
                    ![p].txPreferences =
                      { r.preference_id :
                          r \in {x \in user_preferences :
                                   x.user_id = h[p].session} }]
  /\ UNCHANGED <<user_preferences, nextPreferenceId,
                 initial_survey_responses, reply>>
  /\ SurveyFrame

\* INSERT INTO user_preferences (user_id, cluster_id), in the transaction.
\* The table definition is not part of the sources: where a row of the user
\* has been committed meanwhile, the INSERT adds a second one, or a unique
\* key refuses it and the transaction is rolled back
SurveyInsert(p) ==
  /\ h[p].pc = "surveyInsert"
  /\ \E refused \in BOOLEAN :
       /\ refused => \E r \in user_preferences : r.user_id = h[p].session
       /\ h' = [h EXCEPT ![p].pc = IF refused THEN "surveyRollback"
                                              ELSE "surveyCommit",
                         ![p].txInserted = IF refused THEN 0
                                           ELSE nextPreferenceId]
  /\ nextPreferenceId' = nextPreferenceId + 1
  /\ UNCHANGED <<user_preferences, initial_survey_responses, reply>>
  /\ SurveyFrame

\* the rows of initial_survey_responses the transaction has inserted
SavedResponses(me) ==
  SetToBag({ [user_id |-> me.session, question_id |-> me.responses.s[i]] :
             i \in 1..me.saved })

\* the user_preferences table after the commit of the transaction
CommittedPreferences(me) ==
  { IF r.preference_id \in me.txPreferences
      THEN [r EXCEPT !.cluster_id = me.clusterId.n]
      ELSE r : r \in user_preferences }
    \cup (IF me.txInserted = 0 THEN {}
          ELSE { [preference_id |-> me.txInserted, user_id |-> me.session,
                  cluster_id |-> me.clusterId.n] })

\* connection.commit() resolves: the rows are written, the handler answers
\* 201 and releases the connection
SurveyCommit(p) ==
  /\ h[p].pc = "surveyCommit"
  /\ user_preferences' = CommittedPreferences(h[p])
  /\ initial_survey_responses' =
       initial_survey_responses (+) SavedResponses(h[p])
  /\ reply' = SurveyAnswer(h[p].session, 201)
  /\ h' = [h EXCEPT ![p] = Idle]
  /\ UNCHANGED nextPreferenceId
  /\ SurveyFrame

\* an awaited call of the handler rejects: getConnection and
\* beginTransaction are outside the inner try and lead to the 500 of the
\* outer catch; a statement or the commit leads to the rollback of the
\* inner catch
SurveyRejects(p) ==
  /\ h[p].pc \in {"surveyGetConnection", "surveyBegin", "surveyResponse",
                  "surveyPreferences", "surveyUpdate", "surveyInsert",
                  "surveyCommit"}
  /\ IF h[p].pc \in {"surveyGetConnection", "surveyBegin"}
       THEN /\ reply' = SurveyAnswer(h[p].session, 500)
            /\ h' = [h EXCEPT ![p] = Idle]
       ELSE /\ reply' = reply
            /\ h' = [h EXCEPT ![p].pc = "surveyRollback"]
  /\ UNCHANGED <<user_preferences, nextPreferenceId,
                 initial_survey_responses>>
  /\ SurveyFrame

\* connection.rollback() resolves, and the error is thrown on, or rejects:
\* the connection is released and the outer catch answers 500
SurveyRollback(p) ==
  /\ h[p].pc = "surveyRollback"
  /\ reply' = SurveyAnswer(h[p].session, 500)
  /\ h' = [h EXCEPT ![p] = Idle]
  /\ UNCHANGED <<user_preferences, nextPreferenceId,
                 initial_survey_responses>>
  /\ SurveyFrame

(***************************************************************************)
(* Rejected queries: the catch block of a read, like, recommend or friends *)
(* handler                                                                 *)
(***************************************************************************)
\* the routes whose handler is one try block around its pool.query calls
QueryRoutes ==
  {"register", "getCurrentLocation", "findNearbyBusinesses",
   "likeBusiness", "unlikeBusiness", "recommend", "buildHeatmap",
   "sendFriendRequest", "respondFriendRequest", "getFriendLocation"}

\* the positions of a handler that waits for a query after its first one
AwaitedQueries ==
  {"nearbyQuery", "heatmapQuery", "likeCheck", "likeInsert",
   "recommendLocate", "recommendQuery", "friendshipCheck",
   "friendshipInsert", "respondUpdate", "friendLocate", "registerHash",
   "registerInsert"}

\* the first pool.query of a handler rejects (the server is gone, the pool
\* is closed): the catch block answers 500 and no table has changed
FirstQueryRejects(p) ==
  /\ h[p].pc = "idle"
  /\ \E route \in QueryRoutes :
       \E u \in IF route = "register" THEN {0} ELSE Users :
         reply' = [NoReply EXCEPT !.op = route, !.user = u, !.status = 500]
  /\ UNCHANGED h
  /\ StoreUnchanged /\ HistoryUnchanged

\* a later pool.query of a handler rejects: the catch block answers 500,
\* what the earlier queries of the handler wrote stays
QueryRejects(p) ==
  /\ h[p].pc \in AwaitedQueries
  /\ reply' = [NoReply EXCEPT !.op = h[p].kind, !.user = h[p].session,
                              !.status = 500]
  /\ h' = [h EXCEPT ![p] = Idle]
  /\ StoreUnchanged /\ HistoryUnchanged

(***************************************************************************)
(* Specifications                                                          *)
(***************************************************************************)
Never == [set |-> FALSE, row |-> 0, latitude |-> 0, longitude |-> 0]

\* no upsertUserLocation has written a row of the user
NeverUpserted == [set |-> FALSE, latitude |-> 0, longitude |-> 0]

Init ==
  /\ locations = BusinessLocations
  /\ user_locations = {}
  /\ nextLocationId = FirstLocationId
  /\ nextUserLocationId = 1
  /\ pg_user_locations = <<>>
  /\ user_business_likes = EmptyBag
  /\ friendships = {}
  /\ nextFriendshipId = 1
  /\ users = InitialUsers
  /\ nextUserId = Cardinality(InitialUsers) + 1
  /\ user_preferences = InitialPreferences
  /\ nextPreferenceId = Cardinality(InitialPreferences) + 1
  /\ initial_survey_responses = EmptyBag
  /\ h = [p \in Slots |-> Idle]
  /\ reply = NoReply
  /\ lastOk = [u \in Users |-> Never]
  /\ okCount = 0
  /\ lastUpsert = [u \in Users |-> NeverUpserted]

\* slots are interchangeable: a request takes the first idle one
FirstIdle(p) == \A q \in Slots : q < p => h[q].pc # "idle"

\* requests are handled concurrently, up to MaxInFlight at a time
\* the clients of a run send a bounded number of updates: a request is sent
\* while the ids taken from locations and the handlers that have not reached
\* their INSERT INTO locations are fewer than max
MoreUpdates(max) ==
  (nextLocationId - FirstLocationId)
    + Cardinality({q \in Slots :
                     h[q].pc \in {"getConnection", "beginTransaction",
                                  "insertLocation"}}) < max

Next ==
  \/ \E p \in Slots :
       MoreUpdates(MaxOverlapping) /\ FirstIdle(p)
         /\ RequestApp(p, OverlappingBodies)
  \/ \E p \in Slots :
       MoreUpdates(MaxOverlapping) /\ FirstIdle(p)
         /\ RequestRouter(p, OverlappingBodies)
  \/ \E p \in Slots : GetConnection(p)
  \/ \E p \in Slots : BeginTransaction(p)
  \/ \E p \in Slots : InsertLocation(p)
  \/ \E p \in Slots : ClearCurrent(p)
  \/ \E p \in Slots : InsertUserLocation(p)
  \/ \E p \in Slots : Upsert(p)
  \/ \E p \in Slots : PgWrite(p)
  \/ \E p \in Slots : Commit(p)
  \/ \E p \in Slots : Throw(p)
  \/ \E p \in Slots : Rollback(p)
  \/ \E p \in Slots : Finish(p)

Spec == Init /\ [][Next]_vars

\* no request is in flight
Quiet == \A q \in Slots : h[q].pc = "idle"

\* the calls come one after the other: a request starts when none is in
\* flight. Every awaited store call of an update may reject
NextSeq ==
  \/ \E p \in Slots :
       MoreUpdates(MaxInserts) /\ Quiet /\ FirstIdle(p) /\ RequestApp(p, Bodies)
  \/ \E p \in Slots :
       MoreUpdates(MaxInserts) /\ Quiet /\ FirstIdle(p)
         /\ RequestRouter(p, Bodies)
  \/ \E p \in Slots : GetConnection(p)
  \/ \E p \in Slots : GetConnectionRejects(p)
  \/ \E p \in Slots : BeginTransaction(p)
  \/ \E p \in Slots : InsertLocation(p)
  \/ \E p \in Slots : ClearCurrent(p)
  \/ \E p \in Slots : InsertUserLocation(p)
  \/ \E p \in Slots : Upsert(p)
  \/ \E p \in Slots : PgWrite(p)
  \/ \E p \in Slots : Commit(p)
  \/ \E p \in Slots : Throw(p)
  \/ \E p \in Slots : Rollback(p)
  \/ \E p \in Slots : RollbackRejects(p)
  \/ \E p \in Slots : Finish(p)
  \/ Quiet /\ GetCurrentLocation

SpecSeq == Init /\ [][NextSeq]_vars

\* the calls come one after the other, and every store step of an update
\* may fail: acquiring the connection, beginTransaction, a statement, the
\* commit, the rollback, the mirror write
NextStoreFailure ==
  \/ \E p \in Slots :
       MoreUpdates(MaxInserts) /\ Quiet /\ FirstIdle(p)
         /\ RequestApp(p, OverlappingBodies)
  \/ \E p \in Slots :
       MoreUpdates(MaxInserts) /\ Quiet /\ FirstIdle(p)
         /\ RequestRouter(p, OverlappingBodies)
  \/ \E p \in Slots : GetConnection(p)
  \/ \E p \in Slots : GetConnectionRejects(p)
  \/ \E p \in Slots : BeginTransaction(p)
  \/ \E p \in Slots : InsertLocation(p)
  \/ \E p \in Slots : ClearCurrent(p)
  \/ \E p \in Slots : InsertUserLocation(p)
  \/ \E p \in Slots : Upsert(p)
  \/ \E p \in Slots : PgWrite(p)
  \/ \E p \in Slots : Commit(p)
  \/ \E p \in Slots : Throw(p)
  \/ \E p \in Slots : Rollback(p)
  \/ \E p \in Slots : RollbackRejects(p)
  \/ \E p \in Slots : Finish(p)

SpecStoreFailure == Init /\ [][NextStoreFailure]_vars

\* no store operation of an invocation has failed: no statement, commit or
\* beginTransaction of MySQL and no query of the secondary store
NoFailure == \A p \in Slots : h[p].threw = "none" /\ ~h[p].pgError

\* the concurrent requests of Next in the runs where no store operation
\* fails: every step leaves NoFailure true
NextMirror ==
  \/ \E p \in Slots :
       MoreUpdates(MaxOverlapping) /\ FirstIdle(p)
         /\ RequestApp(p, OverlappingBodies)
  \/ \E p \in Slots :
       MoreUpdates(MaxOverlapping) /\ FirstIdle(p)
         /\ RequestRouter(p, OverlappingBodies)
  \/ \E p \in Slots : GetConnection(p)
  \/ \E p \in Slots : BeginTransaction(p) /\ NoFailure'
  \/ \E p \in Slots : InsertLocation(p)
  \/ \E p \in Slots : ClearCurrent(p)
  \/ \E p \in Slots : InsertUserLocation(p)
  \/ \E p \in Slots : Upsert(p) /\ NoFailure'
  \/ \E p \in Slots : PgWrite(p) /\ NoFailure'
  \/ \E p \in Slots : Commit(p)
  \/ \E p \in Slots : Finish(p)

SpecMirror == Init /\ [][NextMirror]_vars

\* calls of upsertUserLocation, up to MaxInFlight at a time
NextUpsert ==
  \/ \E p \in Slots : FirstIdle(p) /\ UpsertCall(p)
  \/ \E p \in Slots : Upsert(p)
  \/ \E p \in Slots : PgWrite(p)
  \/ \E p \in Slots : Finish(p)

SpecUpsert == Init /\ [][NextUpsert]_vars

\* the pairs sent by the clients in the runs of the friends routes
FriendBodies ==
  { [latitude |-> Num(8), longitude |-> Num(7)],
    [latitude |-> Num(9), longitude |-> Num(7)] }

\* the pairs sent by the clients in the runs of the like, recommendations
\* and survey routes: a point at a business, and a point whose longitude is
\* the id of a cluster and whose latitude is the id of a user
RecommendBodies ==
  { [latitude |-> Num(8), longitude |-> Num(7)],
    [latitude |-> Num(2), longitude |-> Num(3)] }

\* an update request reaches either handler, when no request is in flight
\* and the clients have sent fewer than max updates
MoveRequests(max, sent) ==
  \/ \E p \in Slots :
       MoreUpdates(max) /\ Quiet /\ FirstIdle(p) /\ RequestApp(p, sent)
  \/ \E p \in Slots :
       MoreUpdates(max) /\ Quiet /\ FirstIdle(p) /\ RequestRouter(p, sent)

\* the steps of the update handlers after the request, one per await; every
\* awaited store call may reject
MoveSteps ==
  \/ \E p \in Slots : GetConnection(p)
  \/ \E p \in Slots : GetConnectionRejects(p)
  \/ \E p \in Slots : BeginTransaction(p)
  \/ \E p \in Slots : InsertLocation(p)
  \/ \E p \in Slots : ClearCurrent(p)
  \/ \E p \in Slots : InsertUserLocation(p)
  \/ \E p \in Slots : Upsert(p)
  \/ \E p \in Slots : PgWrite(p)
  \/ \E p \in Slots : Commit(p)
  \/ \E p \in Slots : Throw(p)
  \/ \E p \in Slots : Rollback(p)
  \/ \E p \in Slots : RollbackRejects(p)
  \/ \E p \in Slots : Finish(p)

\* the read requests, each sent when no request is in flight
Reads ==
  \/ Quiet /\ GetCurrentLocation
  \/ \E p \in Slots : Quiet /\ FirstIdle(p) /\ FindNearbyBusinesses(p)
  \/ \E p \in Slots : NearbyQuery(p)
  \/ \E p \in Slots : Quiet /\ FirstIdle(p) /\ BuildHeatmap(p)
  \/ \E p \in Slots : HeatmapQuery(p)

\* updates and read requests, one after the other, from the stores before
\* any request: the rows the reads see are those the updates have written
NextQuery ==
  \/ MoveRequests(MaxMoves, Bodies)
  \/ MoveSteps
  \/ Reads

SpecQuery == Init /\ [][NextQuery]_vars

\* the steps of the like routes and of the recommendations route
Likes ==
  \/ \E p \in Slots : FirstIdle(p) /\ LikeBusiness(p)
  \/ \E p \in Slots : LikeCheck(p)
  \/ \E p \in Slots : LikeInsert(p)
  \/ UnlikeBusiness

Recommendations ==
  \/ \E p \in Slots : FirstIdle(p) /\ Recommend(p)
  \/ \E p \in Slots : RecommendLocate(p)
  \/ \E p \in Slots : RecommendQuery(p)

\* updates, likes and recommendations, from the stores before any request
NextRecommend ==
  \/ MoveRequests(MaxSocialMoves, RecommendBodies)
  \/ MoveSteps
  \/ Likes
  \/ Recommendations

SpecRecommend == Init /\ [][NextRecommend]_vars

\* the clients of a run send a bounded number of friend requests: one is
\* sent while the ids taken from friendships and the requests that have not
\* reached their INSERT are fewer than MaxFriendRequests
MoreFriendRequests ==
  (nextFriendshipId - 1)
    + Cardinality({q \in Slots :
                     h[q].pc \in {"friendshipCheck", "friendshipInsert"}})
      < MaxFriendRequests

\* friend requests, their answers and friend location reads
Friends ==
  \/ \E p \in Slots :
       MoreFriendRequests /\ FirstIdle(p) /\ SendFriendRequest(p)
  \/ \E p \in Slots : FriendshipCheck(p)
  \/ \E p \in Slots : FriendshipInsert(p)
  \/ \E p \in Slots : FirstIdle(p) /\ RespondFriendRequest(p)
  \/ \E p \in Slots : RespondUpdate(p)
  \/ \E p \in Slots : FirstIdle(p) /\ GetFriendLocation(p)
  \/ \E p \in Slots : FriendLocate(p)

\* updates and the friends routes, from the stores before any request
NextFriends ==
  \/ MoveRequests(MaxSocialMoves, FriendBodies)
  \/ MoveSteps
  \/ Friends

SpecFriends == Init /\ [][NextFriends]_vars

\* the clients of a run send a bounded number of submissions: one is sent
\* while the responses saved, the ids taken from user_preferences and the
\* submissions in flight are fewer than MaxSurveys
MoreSurveys ==
  BagCardinality(initial_survey_responses)
    + (nextPreferenceId - Cardinality(InitialPreferences) - 1)
    + Cardinality({q \in Slots : Submitting(q)}) < MaxSurveys

\* the steps of the survey route
Surveys ==
  \/ \E p \in Slots : MoreSurveys /\ FirstIdle(p) /\ SubmitSurvey(p)
  \/ \E p \in Slots : SurveyGetConnection(p)
  \/ \E p \in Slots : SurveyBegin(p)
  \/ \E p \in Slots : SurveyResponse(p)
  \/ \E p \in Slots : SurveyPreferences(p)
  \/ \E p \in Slots : SurveyUpdate(p)
  \/ \E p \in Slots : SurveyInsert(p)
  \/ \E p \in Slots : SurveyCommit(p)
  \/ \E p \in Slots : SurveyRejects(p)
  \/ \E p \in Slots : SurveyRollback(p)

\* updates, survey submissions and recommendations
NextSurvey ==
  \/ MoveRequests(MaxSocialMoves, RecommendBodies)
  \/ MoveSteps
  \/ Surveys
  \/ Recommendations

SpecSurvey == Init /\ [][NextSurvey]_vars

\* registrations, which may overlap, and friend requests, each sent when no
\* request is in flight
NextRegister ==
  \/ \E p \in Slots : FirstIdle(p) /\ Register(p)
  \/ \E p \in Slots : RegisterHash(p)
  \/ \E p \in Slots : RegisterInsert(p)
  \/ \E p \in Slots : Quiet /\ FirstIdle(p) /\ SendFriendRequest(p)
  \/ \E p \in Slots : FriendshipCheck(p)
  \/ \E p \in Slots : FriendshipInsert(p)

SpecRegister == Init /\ [][NextRegister]_vars

\* a query of a handler is rejected
Rejects ==
  \/ \E p \in Slots : FirstIdle(p) /\ FirstQueryRejects(p)
  \/ \E p \in Slots : QueryRejects(p)

\* the read, like and friends requests when a query may be rejected
SpecQueryFailure == Init /\ [][NextQuery \/ Rejects]_vars

SpecRecommendFailure == Init /\ [][NextRecommend \/ Rejects]_vars

SpecFriendsFailure == Init /\ [][NextFriends \/ Rejects]_vars

(***************************************************************************)
(* Properties                                                              *)
(***************************************************************************)
\* C1: when the calls come one after the other, a user with at least one
\* update answered 201 has exactly one user_locations row with
\* is_current = TRUE, and a user with none has no such row
C1_ExactlyOneCurrent ==
  \A u \in Users :
    IF lastOk[u].set THEN Cardinality(CurrentRows(u)) = 1
                     ELSE CurrentRows(u) = {}

\* a user has been moved twice: an older row was cleared and one is current
C1_Witness ==
  \E u \in Users :
    /\ lastOk[u].set
    /\ Cardinality(RowsOf(u)) = 2
    /\ Cardinality(CurrentRows(u)) = 1

\* the user of an invocation
UserOf(p) == h[p].userId.n

\* an update for user u holds an open transaction
InFlight(u) == \E p \in Slots : InTransaction(h[p]) /\ UserOf(p) = u

\* C2: with overlapping updates for one user, the committed rows never show
\* more than one is_current = TRUE row of that user, and once the updates
\* of a user have all ended its single current row is the one inserted by
\* the transaction that committed last
C2_AtMostOneCurrentLastWins ==
  \A u \in Users :
    /\ Cardinality(CurrentRows(u)) <= 1
    /\ (lastOk[u].set /\ ~InFlight(u)) =>
         {r.user_location_id : r \in CurrentRows(u)} = {lastOk[u].row}

\* C3: the secondary store is written by an invocation only after its
\* MySQL transaction has committed: an invocation that has answered and has
\* written the secondary store has committed, so one that rolled back
\* (answered 500) has not written it
C3_MirrorAfterCommit ==
  \A p \in Slots :
    (h[p].pc = "done" /\ h[p].mirrored) =>
      (h[p].committed /\ h[p].res.status # 500)

\* the invocation has answered a request that passed authentication (and,
\* in the router, carried a user id), so that its coordinates were looked at
Answered(p) ==
  /\ h[p].pc = "done"
  /\ h[p].acquired = 1
  /\ ~Falsy(h[p].userId)

\* C4: an invocation whose mirror write threw while every step of its
\* MySQL transaction succeeded has committed (its row is the user's single
\* is_current = TRUE row and its location record is stored), has answered
\* 201 with the ids of the rows it inserted, and reports the secondary
\* outcome as failed
C4_MirrorFailureKeepsPrimary ==
  \A p \in Slots :
    (h[p].pc = "done" /\ h[p].pgError /\ h[p].threw = "none") =>
      /\ h[p].committed
      /\ h[p].res.status = 201
      /\ h[p].res.locationId = h[p].locationId
      /\ h[p].res.userLocationId = h[p].userLocationId
      /\ h[p].res.postgres = "failed"
      /\ CurrentRows(UserOf(p)) =
           {NewUserLocation(h[p].userLocationId, UserOf(p), h[p].locationId)}
      /\ \E l \in locations :
           /\ l.location_id = h[p].locationId
           /\ l.latitude = h[p].latitude.n
           /\ l.longitude = h[p].longitude.n

\* the mirror write of a user's second update threw and the update went
\* through
C4_Witness ==
  \E p \in Slots :
    /\ h[p].pc = "done" /\ h[p].pgError /\ h[p].threw = "none"
    /\ h[p].res.status = 201
    /\ Cardinality(RowsOf(UserOf(p))) = 2

\* the handler of the invocation is inside its try block, from the call of
\* beginTransaction on, or in its catch block
InTryOrCatch(me) ==
  InTransaction(me)
    \/ (me.kind \in {"app", "router"}
          /\ me.pc \in {"beginTransaction", "rollback"})

\* C5: no step of a transaction other than its successful commit changes
\* the committed rows of locations and user_locations; a step that fails
\* passes control to the rollback, and the invocation then ends with the
\* answer 500 without having committed
C5_FailureRollsBack ==
  [][\A p \in Slots :
       /\ (InTryOrCatch(h[p]) /\ ~h'[p].committed) =>
            /\ locations' = locations
            /\ user_locations' = user_locations
       /\ (InTryOrCatch(h[p]) /\ h'[p].threw # "none") =>
            /\ h'[p].pc \in {"rollback", "done"}
            /\ ~h'[p].committed
            /\ h'[p].pc = "done" => h'[p].res.status = 500]_vars

\* a coordinate pair outside -90..90 / -180..180
OutOfRange(latitude, longitude) ==
  /\ latitude.t = "number" /\ longitude.t = "number"
  /\ \/ latitude.n < -90 \/ latitude.n > 90
     \/ longitude.n < -180 \/ longitude.n > 180

\* C6: a request whose latitude or longitude is out of range is, when no
\* store step fails, answered 400 and has changed neither the primary
\* tables nor the secondary store
C6_OutOfRangeRejected ==
  \A p \in Slots :
    (Answered(p) /\ h[p].threw = "none"
       /\ OutOfRange(h[p].latitude, h[p].longitude)) =>
      /\ h[p].res.status = 400
      /\ ~h[p].committed
      /\ ~h[p].mirrored

\* C7: when no store step fails a request is answered 400 exactly when its
\* latitude or longitude is absent or not a number, and the validation
\* precedes the transaction: no request with such a value begins one
C7_RejectedIffNotNumeric ==
  \A p \in Slots :
    LET numeric == h[p].latitude.t = "number" /\ h[p].longitude.t = "number"
    IN /\ (Answered(p) /\ h[p].threw = "none") =>
            (h[p].res.status = 400 <=> ~numeric)
       /\ InTryOrCatch(h[p]) => numeric

\* C8: when the calls come one after the other, getCurrentLocation answers
\* with the coordinates of the user's last update answered 201, and with
\* 404 exactly when the user has had none
C8_CurrentIsLastUpdate ==
  (reply.op = "getCurrentLocation" /\ reply.status \notin {401, 403}) =>
    IF lastOk[reply.user].set
      THEN /\ reply.status = 200
           /\ reply.latitude = lastOk[reply.user].latitude
           /\ reply.longitude = lastOk[reply.user].longitude
      ELSE reply.status = 404

\* the user moved twice, to different places, and the read shows the second
C8_Witness ==
  /\ reply.op = "getCurrentLocation" /\ reply.status = 200
  /\ Cardinality(RowsOf(reply.user)) = 2
  /\ \E r \in RowsOf(reply.user) :
       /\ ~r.is_current
       /\ LocationOf(r).latitude # reply.latitude

\* C9: every step leaves the rows of locations in place, and adds exactly
\* one row when it answers an update with 201 and none otherwise
C9_AppendOnly ==
  [][/\ locations \subseteq locations'
     /\ Cardinality(locations') - Cardinality(locations) = okCount' - okCount
     /\ okCount' - okCount \in {0, 1}]_vars

\* two updates went through and a later one failed: the table holds two
\* records more than at the start
C9_Witness ==
  /\ okCount = 2
  /\ Cardinality(locations) = Cardinality(BusinessLocations) + 2
  /\ \E p \in Slots : h[p].pc = "done" /\ h[p].res.status = 500

\* the distance of a point from the centre of the reply, in metres: 0 for
\* the centre itself, the great-circle distance for another point
DistanceFromCentre(latitude, longitude) ==
  IF <<latitude, longitude>> = <<reply.latitude, reply.longitude>> THEN 0
  ELSE DistanceMetres(reply.latitude, reply.longitude, latitude, longitude)

\* the distance of business b from the centre of the reply
DistanceOf(b) ==
  LET l == CHOOSE l \in locations : l.location_id = b.location_id
  IN DistanceFromCentre(l.latitude, l.longitude)

\* business b lies within the radius of the reply
InRadius(b) == DistanceOf(b) < reply.radius * 1000

\* C10: the businesses findNearbyBusinesses returns lie at a distance
\* strictly below the radius from the user's current location, come in
\* order of non-decreasing distance, are at most limit many and distinct,
\* and no business within the radius that was left out is nearer than one
\* that was returned (a business left out means the limit was reached)
C10_NearbyFilteredOrderedLimited ==
  (reply.op = "findNearbyBusinesses" /\ reply.status = 200) =>
    LET rows == reply.rows
        returned == {rows[i].business_id : i \in 1..Len(rows)}
    IN /\ \E r \in CurrentRows(reply.user) :
            /\ LocationOf(r).latitude = reply.latitude
            /\ LocationOf(r).longitude = reply.longitude
       /\ \A i \in 1..Len(rows) :
            \E b \in businesses :
              /\ b.business_id = rows[i].business_id
              /\ InRadius(b)
              /\ rows[i].distance = DistanceOf(b)
       /\ \A i, j \in 1..Len(rows) :
            i < j => /\ rows[i].distance <= rows[j].distance
                     /\ rows[i].business_id # rows[j].business_id
       /\ Len(rows) <= reply.limit
       /\ \A b \in businesses :
            (InRadius(b) /\ b.business_id \notin returned) =>
              /\ Len(rows) = reply.limit
              /\ \A i \in 1..Len(rows) : rows[i].distance <= DistanceOf(b)

\* C11: findNearbyBusinesses asked by a user that has no is_current = TRUE
\* row answers 404 and carries no list of businesses
C11_NearbyWithoutLocationIs404 ==
  (reply.op = "findNearbyBusinesses" /\ reply.status \notin {401, 403}
     /\ CurrentRows(reply.user) = {}) =>
    /\ reply.status = 404
    /\ reply.rows = <<>>

\* a user without a location asked while another user has one, so that
\* businesses and positions exist that an unfiltered answer would show
C11_Witness ==
  /\ reply.op = "findNearbyBusinesses" /\ reply.status = 404
  /\ CurrentRows(reply.user) = {}
  /\ \E u \in Users : CurrentRows(u) # {}

\* C12: buildHeatmap asked by a user that has no current location answers
\* 200 with locations = [] and count = 0, and has not run the radius query
C12_HeatmapWithoutLocationIsEmpty ==
  (reply.op = "buildHeatmap" /\ reply.status \notin {401, 403}
     /\ CurrentRows(reply.user) = {}) =>
    /\ reply.status = 200
    /\ reply.rows = <<>>
    /\ reply.count = 0
    /\ ~reply.queried

\* a user without a location asked while another user has one
C12_Witness ==
  /\ reply.op = "buildHeatmap" /\ reply.status = 200
  /\ CurrentRows(reply.user) = {}
  /\ ~reply.queried
  /\ \E u \in Users : CurrentRows(u) # {}

\* the current rows of the users other than u whose location lies within
\* radius of the centre of the reply
OthersWithin(u) ==
  { r \in user_locations :
      /\ r.is_current
      /\ r.user_id # u
      /\ DistanceFromCentre(LocationOf(r).latitude, LocationOf(r).longitude)
           < reply.radius * 1000 }

\* C13: buildHeatmap of a user with a current location returns exactly the
\* current locations of the other users within the radius: the user's own
\* location is not among them and each other user contributes at most one
C13_HeatmapOnlyOthers ==
  (reply.op = "buildHeatmap" /\ reply.status = 200 /\ reply.queried) =>
    /\ {reply.rows[i].location_id : i \in 1..Len(reply.rows)}
         = {r.location_id : r \in OthersWithin(reply.user)}
    /\ Len(reply.rows) = reply.count
    /\ \A u \in Users \ {reply.user} :
         Cardinality({i \in 1..Len(reply.rows) :
                        \E r \in RowsOf(u) :
                          r.location_id = reply.rows[i].location_id}) <= 1

\* the businesses recommend may return to user u: those of u's cluster that
\* u has not liked
Eligible(u) ==
  { b \in businesses :
      /\ \E pref \in user_preferences :
           pref.user_id = u /\ pref.cluster_id = b.cluster_id
      /\ ~BagIn(Like(u, b.business_id), user_business_likes) }

\* the business ids of the rows of the reply
ReturnedIds == {reply.rows[i].business_id : i \in 1..Len(reply.rows)}

\* C14: recommend returns only businesses of the user's cluster that the
\* user has not liked at the time of the query (a liked business is left
\* out), and it leaves out a business of the cluster that is not liked only
\* when the limit is reached (an unliked business is eligible again)
C14_RecommendClusterNotLiked ==
  (reply.op = "recommend" /\ reply.status = 200) =>
    /\ ReturnedIds \subseteq {b.business_id : b \in Eligible(reply.user)}
    /\ Len(reply.rows) < reply.limit =>
         ReturnedIds = {b.business_id : b \in Eligible(reply.user)}

\* the distance of business b from the centre of the reply, 0 for a business
\* at the centre itself
RankDistance(b) ==
  LET l == CHOOSE l \in locations : l.location_id = b.location_id
  IN IF <<l.latitude, l.longitude>> = <<reply.latitude, reply.longitude>>
       THEN 0
       ELSE DistanceMetres(reply.latitude, reply.longitude,
                           l.latitude, l.longitude)

\* the business of row i of the reply
BusinessAt(i) ==
  CHOOSE b \in businesses : b.business_id = reply.rows[i].business_id

\* business a ranks no later than business b in the order of the reply
RanksBefore(a, b) ==
  IF reply.located THEN RankDistance(a) <= RankDistance(b)
                   ELSE a.rating >= b.rating

\* C15: recommend ranks by ascending distance from the user's current
\* location when the user has one and by descending rating when it has
\* none, returns at most limit rows, and these are the first of that order
C15_RecommendRankedAndCapped ==
  (reply.op = "recommend" /\ reply.status = 200) =>
    /\ reply.located <=> CurrentRows(reply.user) # {}
    /\ reply.located =>
         \E r \in CurrentRows(reply.user) :
           /\ LocationOf(r).latitude = reply.latitude
           /\ LocationOf(r).longitude = reply.longitude
    /\ \A i, j \in 1..Len(reply.rows) :
         i < j => /\ RanksBefore(BusinessAt(i), BusinessAt(j))
                  /\ reply.rows[i].business_id # reply.rows[j].business_id
    /\ Len(reply.rows) <= reply.limit
    /\ \A b \in Eligible(reply.user) :
         b.business_id \notin ReturnedIds =>
           /\ Len(reply.rows) = reply.limit
           /\ \A i \in 1..Len(reply.rows) : RanksBefore(BusinessAt(i), b)

\* C16: a step changes the user_locations rows of a user (their is_current
\* flags, their pointers, their number) only when it is the commit of an
\* update of that very user; the rows of every other user stay as they are
C16_OtherUsersUntouched ==
  [][\A u \in Users :
       {r \in user_locations' : r.user_id = u} # RowsOf(u) =>
         \E p \in Slots :
           /\ h[p].pc = "commit"
           /\ UserOf(p) = u
           /\ h'[p].committed]_vars

\* an update of one user has committed after another user got its current
\* row, and that row is still current
C16_Witness ==
  \E p \in Slots :
    /\ h[p].pc = "done" /\ h[p].committed
    /\ \E v \in Users \ {UserOf(p)} :
         \E r \in CurrentRows(v) :
           /\ r.user_location_id < h[p].userLocationId
           /\ r.user_location_id = lastOk[v].row

\* C17: whatever the interleaving of the upsertUserLocation calls, the
\* secondary store holds no two rows of one user, it holds a row of a user
\* exactly when an upsert of that user has succeeded, and that row carries
\* the coordinates of the latest upsert that succeeded
C17_OneRowPerUserLatestWins ==
  \A u \in Users :
    /\ Cardinality(PgRowsOf(u)) <= 1
    /\ lastUpsert[u].set <=> PgRowsOf(u) # {}
    /\ \A i \in PgRowsOf(u) :
         /\ pg_user_locations[i].latitude = lastUpsert[u].latitude
         /\ pg_user_locations[i].longitude = lastUpsert[u].longitude

\* two calls for one user both found no row (their checks came before
\* either write); one has inserted and the other has not written, while a
\* row of the other user is in the store
C17_Witness ==
  \E p, q \in Slots :
    /\ p # q /\ UserOf(p) = UserOf(q)
    /\ h[p].kind = "service" /\ h[q].kind = "service"
    /\ h[p].pc = "done" /\ ~h[p].existingUser /\ h[p].mirrored
    /\ h[q].pc = "done" /\ ~h[q].existingUser /\ ~h[q].mirrored
    /\ validateCoordinates(h[q].latitude, h[q].longitude)
    /\ h[q].latitude # h[p].latitude
    /\ Cardinality(PgRowsOf(UserOf(p))) = 1
    /\ \E v \in Users \ {UserOf(p)} : PgRowsOf(v) # {}

\* C19: updateLocation runs for authenticated requesters only and changes
\* the requester's own location only: an update that has committed was
\* sent with a valid session, and the user whose current location it
\* changed is the user that session identifies (stated for the updates no
\* step of which failed)
C19_OnlyAuthenticatedRequester ==
  \A p \in Slots :
    (h[p].pc = "done" /\ h[p].committed /\ ~h[p].pgError) =>
      /\ h[p].session \in Users
      /\ UserOf(p) = h[p].session

\* a friendship row between a and b, in either direction, is accepted
AreFriends(a, b) ==
  \E f \in friendships :
    /\ f.status = "accepted"
    /\ {f.user_id_1, f.user_id_2} = {a, b}

\* C18: an authenticated getFriendLocation request goes on to read the
\* target's location only when an accepted friendship row links requester
\* and target, in either direction, at the time the handler looks; when
\* the friendship is absent, pending or rejected it is answered 403 and
\* carries no location; an answer 200 or 404 comes from a request that
\* passed that test, and 200 carries the target's current location. The
\* steps that answer such a request are those that put the answer in reply:
\* they change reply or end the handler's second query
C18_FriendLocationOnlyIfAccepted ==
  [][/\ \A p \in Slots :
          (h[p].pc = "idle" /\ h'[p].pc = "friendLocate") =>
            AreFriends(h'[p].session, h'[p].target)
     /\ (/\ reply'.op = "getFriendLocation" /\ reply'.user \in Users
         /\ \/ reply' # reply
            \/ \E p \in Slots :
                 h[p].pc = "friendLocate" /\ h'[p].pc = "idle") =>
          /\ reply'.status = 403 =>
               /\ ~AreFriends(reply'.user, reply'.target)
               /\ ~reply'.located
               /\ reply'.latitude = 0 /\ reply'.longitude = 0
          /\ reply'.status # 403 =>
               /\ reply'.status \in {200, 404}
               /\ \E p \in Slots :
                    /\ h[p].pc = "friendLocate" /\ h'[p].pc = "idle"
                    /\ h[p].session = reply'.user
                    /\ h[p].target = reply'.target
               /\ reply'.status = 200 =>
                    \E r \in CurrentRows(reply'.target) :
                      /\ LocationOf(r).latitude = reply'.latitude
                      /\ LocationOf(r).longitude = reply'.longitude]_vars

\* the requester had received the target's request and accepted it, and
\* reads the target's location
C18_Witness ==
  /\ reply.op = "getFriendLocation" /\ reply.status = 200
  /\ reply.located
  /\ \E f \in friendships :
       /\ f.status = "accepted"
       /\ f.user_id_1 = reply.target /\ f.user_id_2 = reply.user

\* the request of a user whose friendship with the target was rejected is
\* denied although the target has a location
C18_WitnessDenied ==
  /\ reply.op = "getFriendLocation" /\ reply.status = 403
  /\ reply.user \in Users
  /\ CurrentRows(reply.target) # {}
  /\ \E f \in friendships :
       /\ f.status = "rejected"
       /\ {f.user_id_1, f.user_id_2} = {reply.user, reply.target}

\* a request read the location after the accepted friendship it had found
\* was turned into a rejected one by an answer that was in flight
C18_WitnessRejectedMeanwhile ==
  /\ reply.op = "getFriendLocation" /\ reply.status = 200
  /\ ~AreFriends(reply.user, reply.target)

\* every request has been answered
AllCompleted == \A p \in Slots : h[p].pc \in {"idle", "done"}

\* C20: in the runs where no store operation fails, once every update has
\* been answered the secondary store holds, for each user with an update
\* answered 201, a point equal to the coordinates of the user's
\* is_current = TRUE location, overlapping updates of one user included
C20_MirrorMatchesPrimary ==
  AllCompleted =>
    \A u \in Users :
      lastOk[u].set =>
        /\ PgRowsOf(u) # {}
        /\ \A i \in PgRowsOf(u) :
             \A r \in CurrentRows(u) :
               /\ pg_user_locations[i].latitude = LocationOf(r).latitude
               /\ pg_user_locations[i].longitude = LocationOf(r).longitude

\* C21: a connection an update request has acquired from the pool is
\* released exactly once on every path: it is never released more often
\* than it was acquired, and once the request has ended (201, 400 or 500)
\* it has been released once
C21_ReleasedExactlyOnce ==
  \A p \in Slots :
    /\ h[p].released <= h[p].acquired
    /\ h[p].pc = "done" => h[p].released = h[p].acquired

\* the update request of slot p got as far as the handler and the handler
\* has ended: on the main server it passed authenticateToken
HandlerEnded(p) ==
  /\ h[p].pc = "done"
  /\ h[p].kind = "router" \/ (h[p].kind = "app" /\ h[p].session \in Users)

\* C22: an update request whose handler has ended has been answered, with
\* 201, 400 or 500, whichever store step failed (acquiring the connection,
\* beginTransaction, a statement, the commit, the rollback, the mirror write)
C22_AlwaysAnswered ==
  \A p \in Slots : HandlerEnded(p) => h[p].res.status \in {201, 400, 500}

====
